---- MODULE Spec2Model ----
(***************************************************************************)
(* A model of dongle (src/dongle/main.py): the directory scanner, the      *)
(* single-slot path cache, the fuzzy matcher and the commands that use     *)
(* them: the project-root resolver, the picker session and cmd_pick.       *)
(*                                                                         *)
(* Python strings are sequences of one-character strings, so that          *)
(* startswith, split, join and lower are computed and not assumed.         *)
(* A candidate entry is a record [tag, items]: tag "str" for a relative    *)
(* path (items = <<path>>), tag "tuple" for the pair built by the scanner  *)
(* in workspace mode and tag "list" for the same pair after a JSON round   *)
(* trip (items = <<display_path, absolute_path>>).                         *)
(***************************************************************************)
EXTENDS Integers, Sequences, FiniteSets, TLC

VARIABLES
    scanIn,     \* the arguments and the environment of one scan_paths call
    scanOut,    \* what that call returned
    fs,         \* the directory tree below every root (cache specification)
    now,        \* time.time()
    cacheFile,  \* the content of CACHE_FILE
    gen,        \* number of writes to CACHE_FILE so far (ghost)
    proc,       \* the running command, if any
    lastSave,   \* the last save_cache call and how it ended (ghost)
    stale,      \* the record save_cache had written under the key of the last
                \* `pick --rescan` before it started (ghost)
    searchIn,   \* the arguments of one search call
    searchOut,  \* what that call returned
    rootIn,     \* the argument and the environment of one find_project_root call
    rootOut,    \* what that call returned
    pk          \* the picker session of a cmd_pick process

vars == << scanIn, scanOut, fs, now, cacheFile, gen, proc, lastSave, stale,
           searchIn, searchOut, rootIn, rootOut, pk >>

scanVars == << scanIn, scanOut >>
cacheVars == << fs, now, cacheFile, gen, proc, lastSave, stale >>
searchVars == << searchIn, searchOut >>
rootVars == << rootIn, rootOut >>
pickerVars == << pk >>

----------------------------------------------------------------------------
(* Strings and paths *)

Max(a, b) == IF a >= b THEN a ELSE b

Min(a, b) == IF a <= b THEN a ELSE b

SLASH == "/"

\* str.startswith
StartsWith(s, prefix) ==
    /\ Len(prefix) <= Len(s)
    /\ SubSeq(s, 1, Len(prefix)) = prefix

RECURSIVE Join(_)
\* "/".join(comps)
Join(comps) ==
    IF comps = << >> THEN << >>
    ELSE IF Len(comps) = 1 THEN comps[1]
    ELSE comps[1] \o << SLASH >> \o Join(Tail(comps))

RECURSIVE SplitFrom(_, _)
\* the non-empty components of a path (cur is the component being read)
SplitFrom(s, cur) ==
    IF s = << >> THEN (IF cur = << >> THEN << >> ELSE << cur >>)
    ELSE IF Head(s) = SLASH
         THEN (IF cur = << >> THEN << >> ELSE << cur >>) \o SplitFrom(Tail(s), << >>)
         ELSE SplitFrom(Tail(s), Append(cur, Head(s)))

SplitPath(s) == SplitFrom(s, << >>)

\* os.path.join(a, b) for a relative b
PathJoin(a, b) ==
    IF a = << >> THEN b
    ELSE IF a[Len(a)] = SLASH THEN a \o b
    ELSE a \o << SLASH >> \o b

\* os.path.basename
Basename(p) ==
    LET slashes == { i \in 1..Len(p) : p[i] = SLASH }
        last == IF slashes = {} THEN 0
                ELSE CHOOSE i \in slashes : \A j \in slashes : j <= i
    IN SubSeq(p, last + 1, Len(p))

RECURSIVE CommonLen(_, _)
CommonLen(a, b) ==
    IF a = << >> \/ b = << >> THEN 0
    ELSE IF Head(a) = Head(b) THEN 1 + CommonLen(Tail(a), Tail(b))
    ELSE 0

\* os.path.relpath(path, start) for absolute, normalised arguments
RelPath(path, start) ==
    LET sl == SplitPath(start)
        pl == SplitPath(path)
        i == CommonLen(sl, pl)
        rl == [k \in 1..(Len(sl) - i) |-> << ".", "." >>] \o SubSeq(pl, i + 1, Len(pl))
    IN IF rl = << >> THEN << "." >> ELSE Join(rl)

----------------------------------------------------------------------------
(* Candidate entries *)

StrEntry(s) == [tag |-> "str", items |-> << s >>]

TupleEntry(d, a) == [tag |-> "tuple", items |-> << d, a >>]

ListEntry(d, a) == [tag |-> "list", items |-> << d, a >>]

DOT == << "." >>

----------------------------------------------------------------------------
(* Directory scanner *)

SKIP_DIRS ==
    { <<".","g","i","t">>,
      <<".","s","v","n">>,
      <<".","h","g">>,
      <<"n","o","d","e","_","m","o","d","u","l","e","s">>,
      <<"_","_","p","y","c","a","c","h","e","_","_">>,
      <<".","c","a","c","h","e">>,
      <<".","n","p","m">>,
      <<".","y","a","r","n">>,
      <<"d","i","s","t">>,
      <<"b","u","i","l","d">>,
      <<".","n","e","x","t">>,
      <<".","n","u","x","t">>,
      <<"v","e","n","v">>,
      <<".","v","e","n","v">>,
      <<"e","n","v">>,
      <<".","e","n","v">>,
      <<".","t","o","x">>,
      <<"t","a","r","g","e","t">>,
      <<"v","e","n","d","o","r">>,
      <<".","i","d","e","a">>,
      <<".","v","s","c","o","d","e">>,
      <<"c","o","v","e","r","a","g","e">>,
      <<".","m","y","p","y","_","c","a","c","h","e">>,
      <<".","p","y","t","e","s","t","_","c","a","c","h","e">> }

DEFAULT_MAX_DEPTH == 6

HOME_MAX_DEPTH == 2

DEFAULT_MAX_DIRS == 15000

\* The names a directory of the modelled trees can hold.
nA == << "a" >>

nB == << "b" >>

nHidden == << ".", "x" >>

nEnv == << "e", "n", "v" >>

nFile == << "f" >>

nLink == << "l" >>

\* The order in which os.scandir yields the names of one directory.
NameOrder == << nA, nHidden, nEnv, nFile, nLink, nB >>

\* entry.is_dir(follow_symlinks=False): f is a regular file and l a symbolic
\* link to a directory; every other name is a directory.
IsDirNoFollow(name) == name \notin { nFile, nLink }

\* The listing of the directory at relative position rel of a tree.
ScanDir(tree, rel) ==
    SelectSeq(NameOrder, LAMBDA n : Append(rel, n) \in tree)

\* IsSkipped without the test for hidden names
IsSkipped_NoHidden(name) == name \in SKIP_DIRS

\* Skip hidden and default bad dirs
IsSkipped(name) ==
    name \in SKIP_DIRS \/ StartsWith(name, << "." >>)

\* spec.match_file(rel + "/") for a spec made of directory patterns "name/":
\* such a pattern matches a directory of that name at any depth, and
\* everything below it.  No ignore file, or no pathspec module, is the empty
\* set of patterns.
MatchFile(spec, rel) ==
    \E i \in 1..Len(SplitPath(rel)) : SplitPath(rel)[i] \in spec

\* EffectiveMaxDepth without the reduction
EffectiveMaxDepth_NoReduction(a) == a.max_depth

\* max_depth after the home-directory / filesystem-root reduction
EffectiveMaxDepth(a) ==
    IF ~a.is_workspace /\ a.max_depth = DEFAULT_MAX_DEPTH
       /\ a.root \in { a.home, << SLASH >> }
    THEN HOME_MAX_DEPTH
    ELSE a.max_depth

\* the roots that are walked
ScanRoots(a) ==
    IF a.is_workspace /\ a.ws_roots # << >> THEN a.ws_roots ELSE << a.root >>

\* the entry appended for a directory
MakeEntry(a, rel, entry_path, current_root) ==
    IF a.is_workspace
    THEN TupleEntry(PathJoin(Basename(current_root), rel), entry_path)
    ELSE StrEntry(rel)

\* OnPermissionError with the exception left to propagate
OnPermissionError_Raise(acc) == [acc EXCEPT !.raised = TRUE]

\* except PermissionError: return
OnPermissionError(acc) == acc

\* the test at the head of walk
WalkStops(a, acc, depth) ==
    depth > EffectiveMaxDepth(a) \/ Len(acc.paths) >= a.max_dirs

RECURSIVE walk(_, _, _, _, _)
RECURSIVE walkEntries(_, _, _, _, _, _)
\* walk(current, depth, current_root); acc is the list `paths` being built,
\* with raised set once an exception left the walk.
walk(a, acc, current, depth, current_root) ==
    LET rel == RelPath(current, current_root)
        relComps == IF rel = DOT THEN << >> ELSE SplitPath(rel)
    IN IF acc.raised THEN acc
       ELSE IF WalkStops(a, acc, depth) THEN acc
       ELSE IF relComps \in a.unreadable THEN OnPermissionError(acc)
       ELSE walkEntries(a, acc, ScanDir(a.tree, relComps), current, depth, current_root)

\* the for loop of walk over the entries not yet visited
walkEntries(a, acc, entries, current, depth, current_root) ==
    IF entries = << >> \/ acc.raised THEN acc
    ELSE LET name == Head(entries)
             entry_path == PathJoin(current, name)
             rel == RelPath(entry_path, current_root)
             rest == Tail(entries)
         IN IF ~IsDirNoFollow(name)
            THEN walkEntries(a, acc, rest, current, depth, current_root)
            ELSE IF IsSkipped(name)
            THEN walkEntries(a, acc, rest, current, depth, current_root)
            ELSE IF a.ignore # {} /\ MatchFile(a.ignore, rel)
            THEN walkEntries(a, acc, rest, current, depth, current_root)
            ELSE walkEntries(
                    a,
                    walk(a,
                         [acc EXCEPT !.paths =
                             Append(@, MakeEntry(a, rel, entry_path, current_root))],
                         entry_path, depth + 1, current_root),
                    rest, current, depth, current_root)

RECURSIVE walkRoots(_, _, _)
\* for r in roots: if os.path.exists(r): walk(r, 1, r)
walkRoots(a, acc, roots) ==
    IF roots = << >> THEN acc
    ELSE walkRoots(a,
                   IF << >> \in a.tree THEN walk(a, acc, Head(roots), 1, Head(roots))
                   ELSE acc,
                   Tail(roots))

\* scan_paths(root, max_depth, max_dirs, is_workspace) in the environment
\* (home, DONGLE_WORKSPACES, directory tree, ignore files) held by a
ScanPaths(a) ==
    walkRoots(a,
              [paths |-> IF a.is_workspace THEN << >> ELSE << StrEntry(DOT) >>,
               raised |-> FALSE],
              ScanRoots(a))

----------------------------------------------------------------------------
(* Path cache *)

CACHE_TTL == 300

\* Python values that load_cache can hand to its caller, [t, v]: None, a list
\* (v holds its entries), any other JSON value (t its type, v unused), and
\* "raise" for an exception leaving the function.
PyNone == [t |-> "none", v |-> << >>]

PyList(entries) == [t |-> "list", v |-> entries]

PyRaise == [t |-> "raise", v |-> << >>]

\* JSON has no tuples: json.dumps writes a tuple as an array, and json.loads
\* reads an array as a list.
JsonEntry(e) ==
    IF e.tag = "tuple" THEN ListEntry(e.items[1], e.items[2]) ELSE e

\* the candidate list as json.loads(json.dumps(paths)) gives it back
JsonRoundTrip(paths) == [i \in 1..Len(paths) |-> JsonEntry(paths[i])]

\* The content of CACHE_FILE.  kind: "missing" (no file), "garbage" (not
\* JSON, such as a truncated write), "nondict" (JSON, but no object) or
\* "dict".  For a dict, each of root, ts and paths is [t, v] with t = "absent"
\* when the object lacks the field and the type of the value otherwise.
\* gen numbers the writes (ghost).
FileAbsent == [t |-> "absent", v |-> << >>]

NoTs == [t |-> "absent", v |-> 0]

MissingFile ==
    [kind |-> "missing", root |-> FileAbsent, ts |-> NoTs, paths |-> FileAbsent,
     gen |-> 0]

\* json.dumps({"root": root, "paths": paths, "ts": time.time()})
RecordFile(root, paths, time, g) ==
    [kind |-> "dict", root |-> [t |-> "str", v |-> root],
     ts |-> [t |-> "num", v |-> time],
     paths |-> PyList(JsonRoundTrip(paths)), gen |-> g]

\* KeyMismatch with the comparison left out
KeyMismatch_Never(file, root) == FALSE

\* data.get("root") != root
KeyMismatch(file, root) ==
    ~(file.root.t = "str" /\ file.root.v = root)

\* Expired with >= for >
Expired_AtTtl(time, ts) == time - ts >= CACHE_TTL

\* time.time() - data.get("ts", 0) > CACHE_TTL
Expired(time, ts) == time - ts > CACHE_TTL

\* The try block of load_cache: the value returned, or PyRaise.
LoadCacheTry(file, root, time) ==
    IF file.kind = "garbage" THEN PyRaise            \* json.loads
    ELSE IF file.kind = "nondict" THEN PyRaise       \* data.get
    ELSE IF KeyMismatch(file, root) THEN PyNone
    ELSE IF file.ts.t \notin { "absent", "num" } THEN PyRaise   \* float - str
    ELSE IF Expired(time, IF file.ts.t = "absent" THEN 0 ELSE file.ts.v) THEN PyNone
    ELSE IF file.paths.t = "absent" THEN PyRaise     \* data["paths"]
    ELSE IF file.paths.t = "null" THEN PyNone
    ELSE [t |-> file.paths.t, v |-> file.paths.v]

\* except Exception: return None
OnLoadException(r) == IF r = PyRaise THEN PyNone ELSE r

\* load_cache(root) reading the file at the given time
LoadCache(file, root, time) ==
    IF file.kind = "missing" THEN PyNone
    ELSE OnLoadException(LoadCacheTry(file, root, time))

WS_PREFIX == << "W", "O", "R", "K", "S", "P", "A", "C", "E", ":" >>

\* cache_key = "WORKSPACE:" + root if is_workspace else root
CacheKey(root, is_workspace) ==
    IF is_workspace THEN WS_PREFIX \o root ELSE root

\* How a write of CACHE_FILE can end: written; PermissionError at open (the
\* file is as before); an error after the open truncated the file (disk full).
SaveOutcomes == { "ok", "denied", "partial" }

\* CACHE_FILE after save_cache(root, paths) ended with the given outcome
SaveCacheFile(file, root, paths, time, outcome, g) ==
    IF outcome = "ok" THEN RecordFile(root, paths, time, g)
    ELSE IF outcome = "partial"
    THEN [kind |-> "garbage", root |-> FileAbsent, ts |-> NoTs,
          paths |-> FileAbsent, gen |-> g]
    ELSE file

----------------------------------------------------------------------------
(* Fuzzy matching *)

UPPER ==
    << "A", "B", "C", "D", "E", "F", "G", "H", "I", "J", "K", "L", "M",
       "N", "O", "P", "Q", "R", "S", "T", "U", "V", "W", "X", "Y", "Z" >>

LOWER ==
    << "a", "b", "c", "d", "e", "f", "g", "h", "i", "j", "k", "l", "m",
       "n", "o", "p", "q", "r", "s", "t", "u", "v", "w", "x", "y", "z" >>

LowerChar(c) ==
    IF \E i \in 1..Len(UPPER) : UPPER[i] = c
    THEN LOWER[CHOOSE i \in 1..Len(UPPER) : UPPER[i] = c]
    ELSE c

\* str.lower
Lower(s) == [i \in 1..Len(s) |-> LowerChar(s[i])]

\* the 0-based indexes at which q occurs in p
Occurrences(p, q) ==
    { i \in 0..(Len(p) - Len(q)) : SubSeq(p, i + 1, i + Len(q)) = q }

\* q in p
Contains(p, q) == Occurrences(p, q) # {}

\* p.rfind(q), for q in p
RFind(p, q) ==
    CHOOSE i \in Occurrences(p, q) : \A j \in Occurrences(p, q) : j <= i

SUBSTRING_BASE == 1000

SEPARATOR_BONUS == 10

PLAIN_BONUS == 1

CWD_BOOST == 100000

\* "/_ -."
SEPARATORS == { "/", "_", " ", "-", "." }

\* LoopBody for a loop in which a character that is not matched leaves the
\* bonus as it is
LoopBody_NoReset(q, p, ci, st) ==
    IF st.qi < Len(q) /\ p[ci] = q[st.qi + 1]
    THEN LET b == st.bonus + (IF ci > 1 /\ p[ci - 1] \in SEPARATORS
                              THEN SEPARATOR_BONUS ELSE PLAIN_BONUS)
         IN [qi |-> st.qi + 1, score |-> st.score + b, bonus |-> b]
    ELSE st

\* The body of `for ci, ch in enumerate(p)` at the 1-based position ci, in
\* the loop state st = [qi, score, bonus].
LoopBody(q, p, ci, st) ==
    IF st.qi < Len(q) /\ p[ci] = q[st.qi + 1]
    THEN LET b == st.bonus + (IF ci > 1 /\ p[ci - 1] \in SEPARATORS
                              THEN SEPARATOR_BONUS ELSE PLAIN_BONUS)
         IN [qi |-> st.qi + 1, score |-> st.score + b, bonus |-> b]
    ELSE [st EXCEPT !.bonus = 0]

RECURSIVE ScoreLoop(_, _, _, _, _)
\* The loop state after the iterations at the positions lo..hi, taken in
\* order from the state st.  The range is halved, and the state after the
\* first half is computed before the second half is entered, to keep the
\* evaluation shallow on long candidates.
ScoreLoop(q, p, lo, hi, st) ==
    IF lo > hi THEN st
    ELSE IF lo = hi THEN LoopBody(q, p, lo, st)
    ELSE LET mid == (lo + hi) \div 2
             half == ScoreLoop(q, p, lo, mid, st)
         IN IF half.qi <= Len(q) THEN ScoreLoop(q, p, mid + 1, hi, half) ELSE half

\* fuzzy_score(query, path)
FuzzyScore(query, path) ==
    IF query = << >> THEN 1
    ELSE LET q == Lower(query)
             p == Lower(path)
         IN IF Contains(p, q) THEN SUBSTRING_BASE - RFind(p, q)
            ELSE LET end == ScoreLoop(q, p, 1, Len(p),
                                      [qi |-> 0, score |-> 0, bonus |-> 0])
                 IN IF end.qi = Len(q) THEN end.score ELSE -1

\* cwd_prefix of search
CwdPrefix(root, cwd) ==
    IF cwd # << >> /\ root # << >> /\ StartsWith(cwd, root)
    THEN LET rel == RelPath(cwd, root)
         IN IF rel # << >> /\ rel # DOT THEN rel \o << SLASH >> ELSE << >>
    ELSE << >>

\* abs_cwd of search
AbsCwd(cwd) == IF cwd # << >> THEN cwd \o << SLASH >> ELSE << >>

\* search_str of a candidate
SearchStr(r) == r.items[1]

\* is_inside_cwd of a candidate
IsInsideCwd(r, root, cwd) ==
    IF r.tag \in { "tuple", "list" }
    THEN AbsCwd(cwd) # << >> /\ StartsWith(r.items[2], AbsCwd(cwd))
    ELSE CwdPrefix(root, cwd) # << >> /\ StartsWith(r.items[1], CwdPrefix(root, cwd))

\* if s > 0
Matches(s) == s > 0

RECURSIVE Scored(_, _, _, _)
\* the list `results` after the for loop over paths
Scored(query, paths, root, cwd) ==
    IF paths = << >> THEN << >>
    ELSE LET r == Head(paths)
             s == FuzzyScore(query, SearchStr(r))
             rest == Scored(query, Tail(paths), root, cwd)
         IN IF Matches(s)
            THEN << [score |-> IF IsInsideCwd(r, root, cwd) THEN s + CWD_BOOST ELSE s,
                     entry |-> r] >> \o rest
            ELSE rest

\* GoesBefore for a sort that is not stable
GoesBefore_TiesToo(x, y) == x.score >= y.score

\* x goes before y in results.sort(key=lambda x: -x[0]) when y was before x
GoesBefore(x, y) == x.score > y.score

RECURSIVE InsertSorted(_, _)
\* sorted, with x (which came after all of sorted) put at its place
InsertSorted(sorted, x) ==
    IF sorted = << >> THEN << x >>
    ELSE IF GoesBefore(x, sorted[Len(sorted)])
    THEN Append(InsertSorted(SubSeq(sorted, 1, Len(sorted) - 1), x),
                sorted[Len(sorted)])
    ELSE Append(sorted, x)

RECURSIVE SortResults(_)
\* results.sort(key=lambda x: -x[0]): a stable sort
SortResults(results) ==
    IF results = << >> THEN << >>
    ELSE InsertSorted(SortResults(SubSeq(results, 1, Len(results) - 1)),
                      results[Len(results)])

\* results[:limit], for limit >= 0
Truncate(results, limit) == SubSeq(results, 1, Min(limit, Len(results)))

\* search(query, paths, limit, root, cwd)
Search(query, paths, limit, root, cwd) ==
    Truncate(SortResults(Scored(query, paths, root, cwd)), limit)

\* The list `paths` of the caller after search returned: search appends to
\* and sorts its own list `results` only.
PathsAfterSearch(paths) == paths

----------------------------------------------------------------------------
(* The scanner's inputs *)

MaxChain == 7

MaxDepthArg == 2

MaxDirsArg == 2

ROOT_DIR == << SLASH >>

HOME_DIR == << SLASH, "h" >>

PROJ_P == << SLASH, "w", SLASH, "p" >>

PROJ_Q == << SLASH, "w", SLASH, "q" >>

\* a, a/a, ... : the chain of k directories named a
Chain(k) == [i \in 1..k |-> nA]

\* Directories a tree may hold besides the chain.
ExtraLeaves ==
    { << nB >>, << nA, nB >>, << nHidden, nA >>, << nA, nEnv, nB >> }

\* Every root holds a regular file and a symbolic link to a directory.
NonDirectories == { << nFile >>, << nLink >> }

\* The tree made of the root, the given paths and all their ancestors.
TreeOf(leaves) ==
    UNION { { SubSeq(p, 1, k) : k \in 0..Len(p) } : p \in leaves }

Trees ==
    { TreeOf({ Chain(k) } \cup ex \cup NonDirectories) :
          k \in 0..MaxChain, ex \in SUBSET ExtraLeaves }

UnreadableChoices == { {}, { << >> }, { << nA >> }, { << nA, nA >> } }

IgnoreChoices == { {}, { nB } }

\* (root, is_workspace, DONGLE_WORKSPACES)
ModeChoices ==
    { [root |-> r, is_workspace |-> FALSE, ws_roots |-> << >>] :
          r \in { ROOT_DIR, HOME_DIR, PROJ_P } }
    \cup
    { [root |-> PROJ_P, is_workspace |-> TRUE, ws_roots |-> w] :
          w \in { << >>, << PROJ_P, PROJ_Q >> } }

ScanArgs ==
    { [root |-> m.root, is_workspace |-> m.is_workspace, ws_roots |-> m.ws_roots,
       home |-> HOME_DIR, max_depth |-> d, max_dirs |-> n,
       tree |-> t, unreadable |-> u, ignore |-> g] :
          m \in ModeChoices,
          d \in (1..MaxDepthArg) \cup { DEFAULT_MAX_DEPTH },
          n \in (1..MaxDirsArg) \cup { DEFAULT_MAX_DIRS },
          t \in Trees, u \in UnreadableChoices, g \in IgnoreChoices }

NoScan == [done |-> FALSE, paths |-> << >>, raised |-> FALSE]

----------------------------------------------------------------------------
(* Values of the variables a specification does not use *)

IdleScan ==
    /\ scanIn = [root |-> PROJ_P, is_workspace |-> FALSE, ws_roots |-> << >>,
                 home |-> HOME_DIR, max_depth |-> DEFAULT_MAX_DEPTH,
                 max_dirs |-> DEFAULT_MAX_DIRS, tree |-> { << >> },
                 unreadable |-> {}, ignore |-> {}]
    /\ scanOut = NoScan

NoProc ==
    [cmd |-> "none", pc |-> "none", root |-> << >>, ws |-> FALSE,
     rescan |-> FALSE, paths |-> PyNone, scanning |-> FALSE, thread |-> "none",
     new_paths |-> << >>, fromGen |-> 0]

NoSave == [key |-> << >>, paths |-> << >>, at |-> 0, outcome |-> "none", gen |-> 0]

NoStale == [set |-> FALSE, key |-> << >>, gen |-> 0]

IdleCache ==
    /\ fs = { << >> }
    /\ now = 0
    /\ cacheFile = MissingFile
    /\ gen = 0
    /\ proc = NoProc
    /\ lastSave = NoSave
    /\ stale = NoStale

NoSearch == [done |-> FALSE, results |-> << >>, paths |-> << >>]

IdleSearch ==
    /\ searchIn = [query |-> << >>, paths |-> << >>, limit |-> 0, root |-> << >>,
                   cwd |-> << >>]
    /\ searchOut = NoSearch

NoRoot == [done |-> FALSE, result |-> << >>, iterations |-> 0]

IdleRoot ==
    /\ rootIn = [start |-> << SLASH >>, entries |-> << >>, search_dir |-> << >>,
                 dirs |-> {}]
    /\ rootOut = NoRoot

\* No cmd_pick process.
NoPicker ==
    [pc |-> "none", root |-> << >>, is_workspace |-> FALSE, cwd |-> << >>,
     paths |-> << >>, is_scanning |-> FALSE, selected |-> << >>,
     results |-> << >>, cursor |-> 0, text |-> << >>, thread |-> "none",
     new_paths |-> << >>, callbacks |-> 0, tty |-> "unopened",
     entered |-> FALSE, raised |-> "none", stdout |-> << >>, exit |-> -1,
     has_update |-> FALSE, checker |-> "none", invalidates |-> 0]

IdlePicker == pk = NoPicker

----------------------------------------------------------------------------
(* Specification of the scanner: one call of scan_paths on every input *)

InitScan ==
    /\ scanIn \in ScanArgs
    /\ scanOut = NoScan
    /\ IdleCache
    /\ IdleSearch
    /\ IdleRoot
    /\ IdlePicker

\* scan_paths(root, max_depth, max_dirs, is_workspace)
CallScanPaths ==
    /\ ~scanOut.done
    /\ scanOut' = [done |-> TRUE,
                   paths |-> ScanPaths(scanIn).paths,
                   raised |-> ScanPaths(scanIn).raised]
    /\ UNCHANGED << scanIn, cacheVars, searchVars, rootVars, pickerVars >>

NextScan == CallScanPaths

SpecScan == InitScan /\ [][NextScan]_vars

----------------------------------------------------------------------------
(* Claims about the scanner (checked under SpecScan) *)

SeqRange(q) == { q[i] : i \in 1..Len(q) }

\* The owning root of a scanned entry.
EntryRoot(a, e) ==
    IF e.tag = "str" THEN a.root
    ELSE CHOOSE r \in SeqRange(ScanRoots(a)) :
             StartsWith(e.items[2], r \o << SLASH >>)

\* The names on the way from the owning root down to the directory an entry
\* names; empty for the root itself.
EntryRel(a, e) ==
    IF e.tag = "str"
    THEN (IF e.items[1] = DOT THEN << >> ELSE SplitPath(e.items[1]))
    ELSE SplitPath(SubSeq(e.items[2], Len(EntryRoot(a, e)) + 1, Len(e.items[2])))

NameDenied(name) == name \in SKIP_DIRS \/ (name # << >> /\ name[1] = ".")

\* C5: no entry returned by scan_paths names a directory below the root whose
\* own name, or the name of one of its ancestors below the root, is in
\* SKIP_DIRS or starts with a dot.
C5_NoSkippedDirectory ==
    scanOut.done =>
        \A i \in 1..Len(scanOut.paths) :
            \A k \in 1..Len(EntryRel(scanIn, scanOut.paths[i])) :
                ~NameDenied(EntryRel(scanIn, scanOut.paths[i])[k])

\* A scan that listed a/ (which holds env/b) while .x/a exists at the root.
C5_Witness ==
    /\ scanOut.done
    /\ ~scanIn.is_workspace
    /\ << nA, nEnv, nB >> \in scanIn.tree
    /\ << nHidden, nA >> \in scanIn.tree
    /\ StrEntry(<< "a", SLASH, "a" >>) \in SeqRange(scanOut.paths)

\* C6: scan_paths never returns more than max_dirs entries.
C6_CapIsHard ==
    scanOut.done => Len(scanOut.paths) <= scanIn.max_dirs

\* The depth the claim allows in single-root mode.
C7_Depth(a) ==
    IF a.max_depth = DEFAULT_MAX_DEPTH /\ a.root \in { a.home, ROOT_DIR }
    THEN 2
    ELSE a.max_depth

\* C7: in single-root mode every entry other than "." lies between 1 and D
\* levels below the root, D being 2 for the default max_depth at the home
\* directory or "/", and max_depth otherwise.
C7_SingleRootDepth ==
    (scanOut.done /\ ~scanIn.is_workspace) =>
        \A i \in 1..Len(scanOut.paths) :
            scanOut.paths[i] # StrEntry(DOT) =>
                /\ Len(EntryRel(scanIn, scanOut.paths[i])) >= 1
                /\ Len(EntryRel(scanIn, scanOut.paths[i])) <= C7_Depth(scanIn)

\* The home directory scanned with the default depth: a/a is returned and
\* the readable directory a/a/a below it is not.
C7_Witness ==
    /\ scanOut.done
    /\ ~scanIn.is_workspace
    /\ scanIn.root = HOME_DIR
    /\ scanIn.max_depth = DEFAULT_MAX_DEPTH
    /\ scanIn.unreadable = {}
    /\ Chain(3) \in scanIn.tree
    /\ scanOut.paths[Len(scanOut.paths)] = StrEntry(<< "a", SLASH, "a" >>)

\* C8: in workspace mode no entry is more than 3 levels below its root, there
\* is no "." entry, and every entry is the pair
\* (basename(root)/relative_path, absolute_path).
C8_WorkspaceDepth ==
    (scanOut.done /\ scanIn.is_workspace) =>
        \A i \in 1..Len(scanOut.paths) :
            LET e == scanOut.paths[i]
                r == EntryRoot(scanIn, e)
                rel == EntryRel(scanIn, e)
            IN /\ e.tag = "tuple"
               /\ Len(rel) >= 1
               /\ Len(rel) <= 3
               /\ e.items[1] = Basename(r) \o << SLASH >> \o Join(rel)
               /\ e.items[2] = r \o << SLASH >> \o Join(rel)

\* The tree with everything below an unreadable directory removed.
Pruned(tree, unreadable) ==
    { p \in tree : \A k \in 0..(Len(p) - 1) : SubSeq(p, 1, k) \notin unreadable }

\* C9: scan_paths returns normally, and returns what it returns on the same
\* tree with the unreadable directories empty and readable: they are listed
\* by their parents, nothing below them is, and the rest is unchanged.
C9_PermissionErrorSwallowed ==
    scanOut.done =>
        /\ ~scanOut.raised
        /\ scanOut.paths =
               ScanPaths([scanIn EXCEPT
                            !.tree = Pruned(scanIn.tree, scanIn.unreadable),
                            !.unreadable = {}]).paths

\* a/ is unreadable and holds a directory: a and its sibling b are returned.
C9_Witness ==
    /\ scanOut.done
    /\ ~scanOut.raised
    /\ ~scanIn.is_workspace
    /\ scanIn.unreadable = { << nA >> }
    /\ << nA, nA >> \in scanIn.tree
    /\ StrEntry(<< "a" >>) \in SeqRange(scanOut.paths)
    /\ StrEntry(<< "b" >>) \in SeqRange(scanOut.paths)
    /\ StrEntry(<< "a", SLASH, "a" >>) \notin SeqRange(scanOut.paths)

----------------------------------------------------------------------------
(* Specification of the cache: the commands that read and write CACHE_FILE, *)
(* the clock, and other writers of the file                                 *)

MaxWrites == 2

MaxTicks == 2

\* The clock advances by half the TTL or a second more, so that records of
\* an age just below, equal to and just above the TTL are all met.
TickSteps == { CACHE_TTL \div 2, CACHE_TTL \div 2 + 1 }

MaxClock == MaxTicks * (CACHE_TTL \div 2 + 1)

CacheRoots == { PROJ_P }

CacheTrees ==
    { TreeOf({ << nA >> } \cup NonDirectories),
      TreeOf({ << nA, nB >>, << nB >> } \cup NonDirectories) }

\* What another program, an older version or an interrupted write can leave
\* in CACHE_FILE: not JSON; JSON but no object; an object without root; with
\* the root but without ts, with a string for ts, without paths, with a
\* string for paths, with null for paths.
ForeignFiles(time, g) ==
    LET rootP == [t |-> "str", v |-> PROJ_P]
        tsNow == [t |-> "num", v |-> time]
        one == PyList(<< StrEntry(DOT) >>)
        base == [kind |-> "dict", root |-> rootP, ts |-> tsNow, paths |-> one,
                 gen |-> g]
    IN { [base EXCEPT !.kind = "garbage", !.root = FileAbsent, !.ts = NoTs,
                      !.paths = FileAbsent],
         [base EXCEPT !.kind = "nondict", !.root = FileAbsent, !.ts = NoTs,
                      !.paths = FileAbsent],
         [base EXCEPT !.root = FileAbsent],
         [base EXCEPT !.ts = NoTs],
         [base EXCEPT !.ts = [t |-> "str", v |-> 0]],
         [base EXCEPT !.paths = FileAbsent],
         [base EXCEPT !.paths = [t |-> "str", v |-> << >>]],
         [base EXCEPT !.paths = [t |-> "null", v |-> << >>]] }

\* The arguments of the scan_paths(root, is_workspace=...) calls of the
\* commands; DONGLE_WORKSPACES is not set.
CmdScanArgs(root, is_workspace) ==
    [root |-> root, is_workspace |-> is_workspace, ws_roots |-> << >>,
     home |-> HOME_DIR, max_depth |-> DEFAULT_MAX_DEPTH,
     max_dirs |-> DEFAULT_MAX_DIRS, tree |-> fs, unreadable |-> {},
     ignore |-> {}]

InitCache ==
    /\ fs \in CacheTrees
    /\ now = 0
    /\ cacheFile = MissingFile
    /\ gen = 0
    /\ proc = NoProc
    /\ lastSave = NoSave
    /\ stale = NoStale
    /\ IdleScan
    /\ IdleSearch
    /\ IdleRoot
    /\ IdlePicker

\* time passes
Tick ==
    \E d \in TickSteps :
        /\ now + d <= MaxClock
        /\ now' = now + d
        /\ UNCHANGED << fs, cacheFile, gen, proc, lastSave, stale >>
        /\ UNCHANGED << scanVars, searchVars, rootVars, pickerVars >>

\* CACHE_FILE is not locked: between two commands something else replaces its
\* content.
ExternalWrite ==
    \E f \in ForeignFiles(now, gen + 1) :
        /\ proc.cmd = "none"
        /\ gen < MaxWrites
        /\ cacheFile' = f
        /\ gen' = gen + 1
        /\ UNCHANGED << fs, now, proc, lastSave, stale >>
        /\ UNCHANGED << scanVars, searchVars, rootVars, pickerVars >>

\* save_cache(root, paths), ending with the given outcome
SaveCache(root, paths, outcome) ==
    /\ gen < MaxWrites
    /\ cacheFile' = SaveCacheFile(cacheFile, root, paths, now, outcome, gen + 1)
    /\ gen' = IF outcome = "denied" THEN gen ELSE gen + 1
    /\ lastSave' = [key |-> root, paths |-> paths, at |-> now,
                    outcome |-> outcome, gen |-> gen + 1]

\* cmd_pick up to the start of the picker: the cache is read unless --rescan
\* is given; run_picker starts the scanning thread when it got no list.
CmdPickStart ==
    \E root \in CacheRoots, ws \in BOOLEAN, rescan \in BOOLEAN :
        LET key == CacheKey(root, ws)
            loaded == IF rescan THEN PyNone ELSE LoadCache(cacheFile, key, now)
        IN /\ proc.cmd = "none"
           /\ proc' = [cmd |-> "pick", pc |-> "picker", root |-> root, ws |-> ws,
                       rescan |-> rescan,
                       paths |-> IF loaded = PyNone THEN PyList(<< >>) ELSE loaded,
                       scanning |-> (loaded = PyNone),
                       thread |-> IF loaded = PyNone THEN "scan" ELSE "none",
                       new_paths |-> << >>,
                       fromGen |-> IF loaded = PyNone THEN 0 ELSE cacheFile.gen]
           /\ stale' = IF ~rescan THEN stale
                       ELSE IF /\ lastSave.outcome = "ok"
                               /\ lastSave.key = key
                               /\ cacheFile.gen = lastSave.gen
                       THEN [set |-> TRUE, key |-> key, gen |-> cacheFile.gen]
                       ELSE NoStale
           /\ UNCHANGED << fs, now, cacheFile, gen, lastSave >>
           /\ UNCHANGED << scanVars, searchVars, rootVars, pickerVars >>

\* bg_scan, first half: scan_paths and save_cache
BgScanSave ==
    \E outcome \in SaveOutcomes :
        LET new == ScanPaths(CmdScanArgs(proc.root, proc.ws)).paths
        IN /\ proc.cmd = "pick"
           /\ proc.thread = "scan"
           /\ SaveCache(CacheKey(proc.root, proc.ws), new, outcome)
           /\ proc' = [proc EXCEPT !.thread = "publish", !.new_paths = new]
           /\ UNCHANGED << fs, now, stale >>
           /\ UNCHANGED << scanVars, searchVars, rootVars, pickerVars >>

\* bg_scan, second half: the list of the picker is replaced and is_scanning
\* is cleared
BgScanPublish ==
    /\ proc.cmd = "pick"
    /\ proc.thread = "publish"
    /\ proc' = [proc EXCEPT !.thread = "done", !.paths = PyList(proc.new_paths),
                            !.scanning = FALSE]
    /\ UNCHANGED << fs, now, cacheFile, gen, lastSave, stale >>
    /\ UNCHANGED << scanVars, searchVars, rootVars, pickerVars >>

\* accept or cancel: the picker returns and cmd_pick ends the process, and
\* with it the scanning thread (a daemon thread), wherever it is
PickExit ==
    /\ proc.cmd = "pick"
    /\ proc' = NoProc
    /\ UNCHANGED << fs, now, cacheFile, gen, lastSave, stale >>
    /\ UNCHANGED << scanVars, searchVars, rootVars, pickerVars >>

\* cmd_scan up to the scan: CACHE_FILE is deleted, unless --workspace is
\* given (then it is ~/.dongle_workspace_cache.json that is deleted)
CmdScanStart ==
    \E root \in CacheRoots, ws \in BOOLEAN :
        /\ proc.cmd = "none"
        /\ gen < MaxWrites
        /\ proc' = [NoProc EXCEPT !.cmd = "scan", !.pc = "scanning",
                                  !.root = root, !.ws = ws]
        /\ cacheFile' = IF ws THEN cacheFile ELSE MissingFile
        /\ UNCHANGED << fs, now, gen, lastSave, stale >>
        /\ UNCHANGED << scanVars, searchVars, rootVars, pickerVars >>

\* cmd_scan: scan_paths, save_cache, and the end of the command
CmdScanFinish ==
    \E outcome \in SaveOutcomes :
        /\ proc.cmd = "scan"
        /\ SaveCache(CacheKey(proc.root, proc.ws),
                     ScanPaths(CmdScanArgs(proc.root, proc.ws)).paths, outcome)
        /\ proc' = NoProc
        /\ UNCHANGED << fs, now, stale >>
        /\ UNCHANGED << scanVars, searchVars, rootVars, pickerVars >>

\* cmd_list, get_paths up to its load_cache: on a hit the paths are printed
\* and the command ends
CmdListStart ==
    \E root \in CacheRoots :
        LET cached == LoadCache(cacheFile, CacheKey(root, FALSE), now)
        IN /\ proc.cmd = "none"
           /\ proc' = IF cached # PyNone THEN NoProc
                      ELSE [NoProc EXCEPT !.cmd = "list", !.pc = "scanning",
                                          !.root = root]
           /\ UNCHANGED << fs, now, cacheFile, gen, lastSave, stale >>
           /\ UNCHANGED << scanVars, searchVars, rootVars, pickerVars >>

\* get_paths after a miss: scan_paths and save_cache; the paths are printed
GetPathsScan ==
    \E outcome \in SaveOutcomes :
        /\ proc.cmd = "list"
        /\ SaveCache(CacheKey(proc.root, FALSE),
                     ScanPaths(CmdScanArgs(proc.root, FALSE)).paths, outcome)
        /\ proc' = NoProc
        /\ UNCHANGED << fs, now, stale >>
        /\ UNCHANGED << scanVars, searchVars, rootVars, pickerVars >>

NextCache ==
    \/ Tick
    \/ ExternalWrite
    \/ CmdPickStart
    \/ BgScanSave
    \/ BgScanPublish
    \/ PickExit
    \/ CmdScanStart
    \/ CmdScanFinish
    \/ CmdListStart
    \/ GetPathsScan

SpecCache == InitCache /\ [][NextCache]_vars

----------------------------------------------------------------------------
(* Claims about the cache (checked under SpecCache) *)

\* The keys a caller can ask for.
AllKeys == { CacheKey(r, w) : r \in { PROJ_P, PROJ_Q }, w \in BOOLEAN }

\* CACHE_FILE is as the last save_cache call, a successful one, left it.
SavedAndUntouched ==
    /\ lastSave.outcome = "ok"
    /\ cacheFile.gen = lastSave.gen

\* What load_cache(K) returns now.
LoadNow(K) == LoadCache(cacheFile, K, now)

\* C1 as stated: after save_cache(K, P) at time t and no other write,
\* load_cache(K) at t' returns exactly P when t' - t <= 300 and None when
\* t' - t > 300.
C1_RoundTripExact ==
    SavedAndUntouched =>
        LoadNow(lastSave.key) =
            IF now - lastSave.at <= 300 THEN PyList(lastSave.paths) ELSE PyNone

\* C1 as amended: load_cache(K) then returns P as JSON gives it back (the
\* same entries in the same order, a workspace pair being a two-element list
\* and no longer a tuple; exactly P for a single-root list) when
\* t' - t <= 300, and None when t' - t > 300.
C1_RoundTripJson ==
    SavedAndUntouched =>
        /\ LoadNow(lastSave.key) =
               IF now - lastSave.at <= 300
               THEN PyList(JsonRoundTrip(lastSave.paths))
               ELSE PyNone
        /\ (\A i \in 1..Len(lastSave.paths) : lastSave.paths[i].tag = "str")
               => JsonRoundTrip(lastSave.paths) = lastSave.paths

\* A workspace list saved exactly 300 seconds ago is still returned.
C1_Witness ==
    /\ SavedAndUntouched
    /\ now - lastSave.at = 300
    /\ lastSave.paths # << >>
    /\ lastSave.paths[1].tag = "tuple"
    /\ LoadNow(lastSave.key).t = "list"

\* C2: load_cache returns a value for at most one key; after a successful
\* save that is the key saved under; a record saved under "WORKSPACE:"+R is
\* not returned for R, nor one saved under R for "WORKSPACE:"+R.
C2_SingleSlot ==
    /\ \A k1 \in AllKeys, k2 \in AllKeys :
           (LoadNow(k1) # PyNone /\ LoadNow(k2) # PyNone) => k1 = k2
    /\ SavedAndUntouched =>
           \A k \in AllKeys : LoadNow(k) # PyNone => k = lastSave.key
    /\ \A r \in { PROJ_P, PROJ_Q }, w \in BOOLEAN :
           (SavedAndUntouched /\ lastSave.key = CacheKey(r, w))
               => LoadNow(CacheKey(r, ~w)) = PyNone

\* The second write of the file was a save under "WORKSPACE:"+R: that key is
\* served and R is not.
C2_Witness ==
    /\ SavedAndUntouched
    /\ lastSave.gen = 2
    /\ lastSave.key = CacheKey(PROJ_P, TRUE)
    /\ LoadNow(CacheKey(PROJ_P, TRUE)).t = "list"
    /\ LoadNow(PROJ_P) = PyNone

\* A cache file that is an object with a string root, a number ts and a list
\* paths.
WellFormed(file) ==
    /\ file.kind = "dict"
    /\ file.root.t = "str"
    /\ file.ts.t = "num"
    /\ file.paths.t = "list"

\* C3: load_cache never raises, and returns None whenever the file is
\* missing, unparseable, lacks a field or has a malformed one, holds another
\* key, or is older than the TTL.
C3_LoadAbsentOnAnyFailure ==
    \A k \in AllKeys :
        /\ LoadNow(k) # PyRaise
        /\ ( \/ ~WellFormed(cacheFile)
             \/ cacheFile.root.v # k
             \/ now - cacheFile.ts.v > CACHE_TTL ) => LoadNow(k) = PyNone

\* C4: once `pick --rescan` has started, no later load_cache for its key
\* returns the record that was in the cache when it started (here: no later
\* pick without --rescan starts from that record).
C4_RescanDiscardsRecord ==
    ~( /\ stale.set
       /\ proc.cmd = "pick"
       /\ ~proc.rescan
       /\ CacheKey(proc.root, proc.ws) = stale.key
       /\ proc.fromGen = stale.gen )

----------------------------------------------------------------------------
(* Specification of the matcher: one call of search on every input *)

MaxQueryLen == 2

MaxPaths == 3

MaxLimit == 3

QueryChars == { "a", "b", "B" }

\* the strings over QueryChars of length n
QueriesOfLen(n) == [1..n -> QueryChars]

Queries == UNION { QueriesOfLen(n) : n \in 0..MaxQueryLen }

SEARCH_ROOT == << SLASH, "r" >>

\* Single-root candidates: relative paths below SEARCH_ROOT.
StrPool ==
    { StrEntry(<< "a", SLASH, "b" >>), StrEntry(<< "b", SLASH, "a" >>),
      StrEntry(<< "a", "b" >>), StrEntry(<< "B", "a" >>) }

\* Workspace candidates: a pair as scanned and a pair as read from the cache.
WsPool ==
    { TupleEntry(<< "r", SLASH, "a", SLASH, "b" >>,
                 << SLASH, "r", SLASH, "a", SLASH, "b" >>),
      ListEntry(<< "r", SLASH, "b" >>, << SLASH, "r", SLASH, "b" >>) }

ListsOver(pool) == UNION { [1..n -> pool] : n \in 0..MaxPaths }

CandidateLists == ListsOver(StrPool) \cup ListsOver(WsPool)

\* the working directory of the shell: not given, a/ below the root, the root
CwdChoices == { << >>, SEARCH_ROOT \o << SLASH, "a" >>, SEARCH_ROOT }

\* the string of n characters c
Repeat(c, n) == [i \in 1..n |-> c]

\* the string of n times the characters a, b
Alternate(a, b, n) == [i \in 1..(2 * n) |-> IF i % 2 = 1 THEN a ELSE b]

Str3(a, b, c) == << a, b, c >>

\* The strings of the examples of fuzzy_score: foo, xfoo, foo/bar, fb, zz.
FOO == Str3("f", "o", "o")

ExamplePaths ==
    << StrEntry(FOO), StrEntry(<< "x" >> \o FOO),
       StrEntry(FOO \o << SLASH >> \o Str3("b", "a", "r")) >>

ExampleQueries == { FOO, << "f", "b" >>, << "z", "z" >>, Str3("f", "o", "b") }

\* A candidate in which the query b occurs last at index SUBSTRING_BASE, one
\* in which it occurs last one position further, and a short one.
FarPaths ==
    << StrEntry(Repeat("a", SUBSTRING_BASE) \o << "b" >>),
       StrEntry(Repeat("a", SUBSTRING_BASE + 1) \o << "b" >>),
       StrEntry(<< "a", "b" >>) >>

LongRun == 142

\* A query of LongRun dots and a z; a candidate below a/ that matches it one
\* dot at a time, and a candidate outside a/ that matches the dots as one run.
RunQuery == Repeat(".", LongRun) \o << "z" >>

RunPaths ==
    << StrEntry(<< "a", SLASH >> \o Alternate("a", ".", LongRun) \o << "z" >>),
       StrEntry(<< "b" >> \o Repeat(".", LongRun) \o << "b", "z" >>) >>

\* Calls of search on longer strings than those of Queries and CandidateLists.
LongCalls ==
    { [query |-> q, paths |-> ExamplePaths, limit |-> MaxLimit,
       root |-> SEARCH_ROOT, cwd |-> << >>] : q \in ExampleQueries }
    \cup { [query |-> << "b" >>, paths |-> FarPaths, limit |-> MaxLimit,
            root |-> SEARCH_ROOT, cwd |-> << >>] }
    \cup { [query |-> RunQuery, paths |-> RunPaths, limit |-> MaxLimit,
            root |-> SEARCH_ROOT, cwd |-> c] : c \in CwdChoices }

InitSearch ==
    /\ searchIn \in [query : Queries, paths : CandidateLists, limit : 0..MaxLimit,
                     root : { SEARCH_ROOT }, cwd : CwdChoices] \cup LongCalls
    /\ searchOut = NoSearch
    /\ IdleScan
    /\ IdleCache
    /\ IdleRoot
    /\ IdlePicker

\* search(query, paths, limit, root, cwd)
CallSearch ==
    /\ ~searchOut.done
    /\ searchOut' = [done |-> TRUE,
                     results |-> Search(searchIn.query, searchIn.paths,
                                        searchIn.limit, searchIn.root, searchIn.cwd),
                     paths |-> PathsAfterSearch(searchIn.paths)]
    /\ UNCHANGED << searchIn, scanVars, cacheVars, rootVars, pickerVars >>

NextSearch == CallSearch

SpecSearch == InitSearch /\ [][NextSearch]_vars

----------------------------------------------------------------------------
(* Claims about the matcher (checked under SpecSearch) *)

\* The positions of the candidates that match the query.
MatchingPositions ==
    { i \in 1..Len(searchIn.paths) :
          FuzzyScore(searchIn.query, SearchStr(searchIn.paths[i])) > 0 }

\* The score search ranks the candidate at position i by.
RankScore(i) ==
    FuzzyScore(searchIn.query, SearchStr(searchIn.paths[i]))
        + (IF IsInsideCwd(searchIn.paths[i], searchIn.root, searchIn.cwd)
           THEN CWD_BOOST ELSE 0)

\* The number of matching candidates that a stable descending sort puts
\* before the one at position i.
RankOf(i) ==
    Cardinality({ j \in MatchingPositions :
                      \/ RankScore(j) > RankScore(i)
                      \/ RankScore(j) = RankScore(i) /\ j < i })

\* C10: search returns the first `limit` elements of the stable
\* descending-by-score ordering of the candidates whose fuzzy_score is > 0:
\* every returned entry has fuzzy_score > 0, the returned scores are
\* non-increasing, at most `limit` entries are returned, equal scores keep
\* their scan order, and the candidate list is not changed.
C10_SearchRanking ==
    searchOut.done =>
        LET res == searchOut.results
        IN /\ Len(res) = Min(searchIn.limit, Cardinality(MatchingPositions))
           /\ Len(res) <= searchIn.limit
           /\ \A k \in 1..Len(res) :
                  /\ FuzzyScore(searchIn.query, SearchStr(res[k].entry)) > 0
                  /\ \E i \in MatchingPositions :
                         /\ RankOf(i) = k - 1
                         /\ res[k].entry = searchIn.paths[i]
                         /\ res[k].score = RankScore(i)
           /\ \A k \in 1..(Len(res) - 1) : res[k].score >= res[k + 1].score
           /\ searchOut.paths = searchIn.paths

\* Three matching candidates, two of them with equal scores, and limit 2:
\* two results of different scores are returned.
C10_Witness ==
    /\ searchOut.done
    /\ searchIn.limit = 2
    /\ Cardinality(MatchingPositions) = 3
    /\ Len(searchOut.results) = 2
    /\ searchOut.results[1].score > searchOut.results[2].score
    /\ \E i \in MatchingPositions, j \in MatchingPositions :
           i < j /\ RankScore(i) = RankScore(j)

\* The least position after `after` at which p holds c; Len(p) + 1 if none.
NextPos(p, c, after) ==
    IF \E i \in (after + 1)..Len(p) : p[i] = c
    THEN CHOOSE i \in (after + 1)..Len(p) :
             p[i] = c /\ \A j \in (after + 1)..(i - 1) : p[j] # c
    ELSE Len(p) + 1

RECURSIVE GreedyPositions(_, _, _, _, _)
\* The positions of p at which the characters lo..hi of q are found when each
\* is taken at the first position after the one before it, the first of them
\* after `after`.
GreedyPositions(q, p, lo, hi, after) ==
    IF lo > hi THEN << >>
    ELSE IF lo = hi THEN << NextPos(p, q[lo], after) >>
    ELSE LET mid == (lo + hi) \div 2
             left == GreedyPositions(q, p, lo, mid, after)
         IN IF Len(left) > 0
            THEN left \o GreedyPositions(q, p, mid + 1, hi, left[Len(left)])
            ELSE left

\* q occurs in p at the 0-based index i
OccursAt(q, p, i) == i + Len(q) <= Len(p) /\ \A k \in 1..Len(q) : p[i + k] = q[k]

\* q is a contiguous substring of p
IsSubstring(q, p) == \E i \in 0..Len(p) : OccursAt(q, p, i)

\* the characters of q occur in p in order
IsSubsequence(q, p) ==
    q = << >> \/ GreedyPositions(q, p, 1, Len(q), 0)[Len(q)] <= Len(p)

\* The candidate matches the query, whatever the case of the letters.
QueryMatched(query, path) ==
    \/ query = << >>
    \/ IsSubstring(Lower(query), Lower(path))
    \/ IsSubsequence(Lower(query), Lower(path))

\* The entries search returned.
ResultEntries == { searchOut.results[k].entry : k \in 1..Len(searchOut.results) }

\* C11: fuzzy_score is strictly positive exactly when the candidate matches
\* the query (empty query, contiguous substring or in-order subsequence,
\* whatever the case) and is -1 otherwise; so search, when its limit leaves
\* room for every candidate, returns every candidate that matches, a
\* substring match at index 1000 or later included.
C11_PositiveIffMatched ==
    searchOut.done =>
        /\ \A i \in 1..Len(searchIn.paths) :
               LET s == FuzzyScore(searchIn.query, SearchStr(searchIn.paths[i]))
               IN IF QueryMatched(searchIn.query, SearchStr(searchIn.paths[i]))
                  THEN s > 0
                  ELSE s = -1
        /\ searchIn.limit >= Len(searchIn.paths) =>
               \A i \in 1..Len(searchIn.paths) :
                   QueryMatched(searchIn.query, SearchStr(searchIn.paths[i]))
                       => searchIn.paths[i] \in ResultEntries

\* The score of the reference definition of the matcher.
RefScore(query, path) ==
    IF query = << >> THEN 1
    ELSE LET q == Lower(query)
             p == Lower(path)
         IN IF IsSubstring(q, p)
            THEN 1000 - (CHOOSE i \in 0..Len(p) :
                             /\ OccursAt(q, p, i)
                             /\ \A j \in (i + 1)..Len(p) : ~OccursAt(q, p, j))
            ELSE LET pos == GreedyPositions(q, p, 1, Len(q), 0)
                     \* what the match of q[k] adds to the running bonus
                     inc(k) == IF pos[k] > 1
                                  /\ p[pos[k] - 1] \in { "/", "_", " ", "-", "." }
                               THEN 10 ELSE 1
                     \* the matches j..k are at adjacent positions, so that
                     \* no unmatched character has reset the bonus between
                     InRun(j, k) ==
                         j <= k /\ \A t \in j..(k - 1) : pos[t + 1] = pos[t] + 1
                     credits == { c \in (1..Len(q)) \X (1..Len(q)) : InRun(c[1], c[2]) }
                 IN IF pos[Len(q)] > Len(p) THEN -1
                    ELSE Cardinality({ c \in credits : inc(c[1]) = 1 })
                         + 10 * Cardinality({ c \in credits : inc(c[1]) = 10 })

\* C12: fuzzy_score is the score of the reference definition on every
\* candidate of a call, the scores search returns are the reference scores
\* (plus the boost below the working directory), and on the examples
\* score("foo","foo") = 1000, score("foo","xfoo") = 999,
\* score("fb","foo/bar") > 0 and score("zz","foo") = -1.
C12_FuzzyScoreIsReference ==
    /\ \A i \in 1..Len(searchIn.paths) :
           FuzzyScore(searchIn.query, SearchStr(searchIn.paths[i]))
               = RefScore(searchIn.query, SearchStr(searchIn.paths[i]))
    /\ searchOut.done =>
           \A k \in 1..Len(searchOut.results) :
               LET r == searchOut.results[k]
               IN r.score = RefScore(searchIn.query, SearchStr(r.entry))
                              + (IF IsInsideCwd(r.entry, searchIn.root, searchIn.cwd)
                                 THEN 100000 ELSE 0)
    /\ searchOut.done /\ searchIn.paths = ExamplePaths =>
           /\ searchIn.query = FOO =>
                  /\ searchOut.results[1] = [score |-> 1000, entry |-> ExamplePaths[1]]
                  /\ searchOut.results[3] = [score |-> 999, entry |-> ExamplePaths[2]]
           /\ searchIn.query = << "f", "b" >> =>
                  /\ Len(searchOut.results) = 1
                  /\ searchOut.results[1].entry = ExamplePaths[3]
                  /\ searchOut.results[1].score > 0
           /\ searchIn.query = << "z", "z" >> =>
                  /\ searchOut.results = << >>
                  /\ FuzzyScore(searchIn.query, SearchStr(ExamplePaths[1])) = -1

\* A call returned a candidate that holds the query as a subsequence only,
\* with a run of two matches and a match after a separator in its score.
C12_Witness ==
    /\ searchOut.done
    /\ searchIn.query = Str3("f", "o", "b")
    /\ Len(searchOut.results) = 1
    /\ searchOut.results[1].entry = ExamplePaths[3]
    /\ ~IsSubstring(searchIn.query, SearchStr(ExamplePaths[3]))
    /\ searchOut.results[1].score = 1 + 2 + 10

\* The positions in the results of the candidates below / not below the
\* working directory.
InsideResults ==
    { k \in 1..Len(searchOut.results) :
          IsInsideCwd(searchOut.results[k].entry, searchIn.root, searchIn.cwd) }

\* C13: a matching candidate below the working directory gets exactly 100000
\* added to its fuzzy_score, a candidate elsewhere gets nothing added, and
\* every matching candidate below the working directory is ranked strictly
\* before every matching candidate that is not, whatever their scores.
C13_CwdBoostDominance ==
    searchOut.done =>
        LET res == searchOut.results
            outside == (1..Len(res)) \ InsideResults
        IN /\ \A k \in InsideResults :
                  res[k].score - FuzzyScore(searchIn.query, SearchStr(res[k].entry))
                      = 100000
           /\ \A k \in outside :
                  res[k].score = FuzzyScore(searchIn.query, SearchStr(res[k].entry))
           /\ \A k \in InsideResults, m \in outside : k < m
           /\ outside # {} =>
                  \A i \in MatchingPositions :
                      IsInsideCwd(searchIn.paths[i], searchIn.root, searchIn.cwd)
                          => searchIn.paths[i] \in { res[k].entry : k \in InsideResults }

----------------------------------------------------------------------------
(* The project-root resolver: find_project_root                            *)
(*                                                                         *)
(* A call is [start, entries, search_dir, dirs]: the start path, for each  *)
(* directory what os.listdir gives ([denied, names]: PermissionError, or   *)
(* the names), the value of DONGLE_SEARCH_DIR ([set, v]) and the paths     *)
(* that are directories.  The working directory of the process is start.   *)

ROOT_MARKERS ==
    { << ".", "g", "i", "t" >>,
      << ".", "s", "v", "n" >>,
      << ".", "h", "g" >>,
      << "p", "a", "c", "k", "a", "g", "e", ".", "j", "s", "o", "n" >>,
      << "p", "u", "b", "s", "p", "e", "c", ".", "y", "a", "m", "l" >>,
      << "p", "y", "p", "r", "o", "j", "e", "c", "t", ".", "t", "o", "m", "l" >>,
      << "C", "a", "r", "g", "o", ".", "t", "o", "m", "l" >>,
      << "g", "o", ".", "m", "o", "d" >>,
      << "p", "o", "m", ".", "x", "m", "l" >>,
      << "b", "u", "i", "l", "d", ".", "g", "r", "a", "d", "l", "e" >>,
      << "M", "a", "k", "e", "f", "i", "l", "e" >> }

\* HasMarker for a test that takes any entry for a marker
HasMarker_AnyEntry(names) == names # {}

\* any(marker in entries for marker in ROOT_MARKERS)
HasMarker(names) == \E marker \in ROOT_MARKERS : marker \in names

\* p.rfind("/") + 1
AfterLastSlash(p) ==
    IF \E i \in 1..Len(p) : p[i] = SLASH
    THEN CHOOSE i \in 1..Len(p) : p[i] = SLASH /\ \A j \in (i + 1)..Len(p) : p[j] # SLASH
    ELSE 0

RECURSIVE RStripSlash(_)
\* head.rstrip("/")
RStripSlash(p) ==
    IF p # << >> /\ p[Len(p)] = SLASH THEN RStripSlash(SubSeq(p, 1, Len(p) - 1))
    ELSE p

\* os.path.dirname
Dirname(p) ==
    LET head == SubSeq(p, 1, AfterLastSlash(p))
    IN IF head # << >> /\ \E i \in 1..Len(head) : head[i] # SLASH
       THEN RStripSlash(head)
       ELSE head

\* os.path.abspath of a path without ".." when the working directory is cwd
Abspath(p, cwd) ==
    LET full == IF p # << >> /\ p[1] = SLASH THEN p ELSE PathJoin(cwd, p)
        comps == SelectSeq(SplitPath(full), LAMBDA c : c # DOT)
    IN << SLASH >> \o Join(comps)

\* os.path.expanduser for "~" and "~/..." (no "~user")
Expanduser(p) ==
    IF p # << >> /\ p[1] = "~" /\ (Len(p) = 1 \/ p[2] = SLASH)
    THEN RStripSlash(HOME_DIR) \o SubSeq(p, 2, Len(p))
    ELSE p

\* os.path.isdir, in a process whose working directory is cwd
IsDir(call, p) ==
    p # << >> /\ Abspath(p, call.start) \in call.dirs

RECURSIVE FindUp(_, _, _)
\* the while loop from `current` on, after n iterations: [found, dir] and
\* the number of iterations made in all (ghost)
FindUp(call, current, n) ==
    IF ~call.entries[current].denied /\ HasMarker(call.entries[current].names)
    THEN [found |-> TRUE, dir |-> current, iterations |-> n + 1]
    ELSE LET parent == Dirname(current)
         IN IF parent = current
            THEN [found |-> FALSE, dir |-> current, iterations |-> n + 1]
            ELSE FindUp(call, parent, n + 1)

\* find_project_root(start_path)
FindProjectRoot(call) ==
    LET up == FindUp(call, Abspath(call.start, call.start), 0)
    IN IF up.found THEN up.dir
       ELSE IF /\ call.search_dir.set
               /\ call.search_dir.v # << >>
               /\ IsDir(call, Expanduser(call.search_dir.v))
       THEN Expanduser(call.search_dir.v)
       ELSE Abspath(call.start, call.start)

MaxRootDepth == 3

\* /proj/src/sub and deeper: the directory at each depth
DirNames ==
    << << "p", "r", "o", "j" >>, << "s", "r", "c" >>, << "s", "u", "b" >>,
       << "d" >>, << "e" >> >>

\* the directory at depth k
DirAt(k) == << SLASH >> \o Join(SubSeq(DirNames, 1, k))

RootDirs == { DirAt(k) : k \in 0..MaxRootDepth }

\* What a directory can hold: nothing; names that are no markers; a marker
\* and another name; another marker; a marker that cannot be read.
Listings ==
    { [denied |-> FALSE, names |-> {}],
      [denied |-> FALSE,
       names |-> { << "s", "r", "c" >>, << ".", "g", "i", "t", "h", "u", "b" >>,
                   << "m", "a", "k", "e", "f", "i", "l", "e" >> }],
      [denied |-> FALSE, names |-> { << ".", "g", "i", "t" >>, << "s", "r", "c" >> }],
      [denied |-> FALSE, names |-> { << "M", "a", "k", "e", "f", "i", "l", "e" >> }],
      [denied |-> TRUE, names |-> { << ".", "g", "i", "t" >> }] }

\* DONGLE_SEARCH_DIR: not set; empty; the home directory; a directory below
\* it that does not exist; an absolute directory; a directory named
\* relative to the working directory.
SearchDirs ==
    { [set |-> FALSE, v |-> << >>],
      [set |-> TRUE, v |-> << >>],
      [set |-> TRUE, v |-> << "~" >>],
      [set |-> TRUE, v |-> << "~", SLASH, "x" >>],
      [set |-> TRUE, v |-> DirAt(1)],
      [set |-> TRUE, v |-> DirNames[1]] }

\* The directories that exist: the home directory and those of the tree.
ExistingDirs == RootDirs \cup { HOME_DIR }

InitRoot ==
    /\ rootIn \in [start : RootDirs \cup { DirAt(MaxRootDepth) \o << SLASH >> },
                   entries : [RootDirs -> Listings],
                   search_dir : SearchDirs,
                   dirs : { ExistingDirs }]
    /\ rootOut = NoRoot
    /\ IdleScan
    /\ IdleCache
    /\ IdleSearch
    /\ IdlePicker

\* find_project_root(start)
CallFindProjectRoot ==
    /\ ~rootOut.done
    /\ rootOut' = [done |-> TRUE, result |-> FindProjectRoot(rootIn),
                   iterations |-> FindUp(rootIn, Abspath(rootIn.start, rootIn.start),
                                         0).iterations]
    /\ UNCHANGED << rootIn, scanVars, cacheVars, searchVars, pickerVars >>

NextRoot == CallFindProjectRoot

SpecRoot == InitRoot /\ [][NextRoot]_vars

\* The start directory without a trailing slash, and its depth.
StartDir ==
    IF Len(rootIn.start) > 1 /\ rootIn.start[Len(rootIn.start)] = "/"
    THEN SubSeq(rootIn.start, 1, Len(rootIn.start) - 1)
    ELSE rootIn.start

StartDepth == CHOOSE k \in 0..MaxRootDepth : DirAt(k) = StartDir

\* The depths of the ancestors of the start directory (itself included)
\* that can be listed and hold a marker.
MarkedDepths ==
    { k \in 0..StartDepth :
          /\ ~rootIn.entries[DirAt(k)].denied
          /\ rootIn.entries[DirAt(k)].names \cap ROOT_MARKERS # {} }

\* The directory DONGLE_SEARCH_DIR names, "~" being the home directory and a
\* relative path being taken from the working directory.
NamedSearchDir ==
    LET v == rootIn.search_dir.v
        expanded == IF v = << "~" >> THEN HOME_DIR
                    ELSE IF Len(v) > 1 /\ v[1] = "~" /\ v[2] = "/"
                    THEN HOME_DIR \o SubSeq(v, 2, Len(v))
                    ELSE v
    IN [expanded |-> expanded,
        place |-> IF expanded # << >> /\ expanded[1] = "/" THEN expanded
                  ELSE IF StartDir = << "/" >> THEN << "/" >> \o expanded
                  ELSE StartDir \o << "/" >> \o expanded]

\* C17: find_project_root(start) terminates, after listing each ancestor of
\* start at most once and none below the nearest marked one, and returns the nearest
\* ancestor of start, start included, whose listing holds a ROOT_MARKERS
\* entry, an ancestor that raises PermissionError counting as one without a
\* marker; when no ancestor up to / has one it returns the expanded
\* DONGLE_SEARCH_DIR if that is set and names a directory, and the absolute
\* start directory otherwise.
C17_NearestMarkedAncestor ==
    /\ rootOut.done =>
           rootOut.iterations
               = StartDepth + 1 - (IF MarkedDepths = {} THEN 0
                                   ELSE CHOOSE k \in MarkedDepths :
                                            \A j \in MarkedDepths : j <= k)
    /\ rootOut.done =>
           IF MarkedDepths # {}
           THEN rootOut.result
                    = DirAt(CHOOSE k \in MarkedDepths : \A j \in MarkedDepths : j <= k)
           ELSE IF /\ rootIn.search_dir.set
                   /\ rootIn.search_dir.v # << >>
                   /\ NamedSearchDir.place \in rootIn.dirs
           THEN rootOut.result = NamedSearchDir.expanded
           ELSE rootOut.result = StartDir

\* From /proj/src/sub, with .git in /proj and in /proj/src, whose listing
\* raises PermissionError, and no marker in /proj/src/sub: /proj is returned.
C17_Witness ==
    /\ rootOut.done
    /\ rootIn.start = DirAt(3)
    /\ rootIn.entries[DirAt(3)].names \cap ROOT_MARKERS = {}
    /\ rootIn.entries[DirAt(2)].denied
    /\ << ".", "g", "i", "t" >> \in rootIn.entries[DirAt(1)].names
    /\ ~rootIn.entries[DirAt(1)].denied
    /\ rootOut.result = << "/", "p", "r", "o", "j" >>

----------------------------------------------------------------------------
(* The picker: run_picker and the end of cmd_pick                          *)
(*                                                                         *)
(* pk.pc is where the main thread of the process is: "start" (run_picker   *)
(* entered), "construct" (/dev/tty is open), "running" (inside app.run),   *)
(* "finally" (app.run returned or raised), "returned" / "raised" (run_picker *)
(* is left), "done" (the process has ended).  pk.thread is where the       *)
(* bg_scan thread is.  The key bindings, on_text_change and update_ui run  *)
(* on the event loop of app.run, one at a time; the steps of bg_scan       *)
(* interleave with them.  selected is << >> for None.  cursor is 0-based.  *)

MAX_RESULTS == 8

\* paths[:max_results], were the list not cut
FirstResults_All(paths) == paths

\* paths[:max_results]
FirstResults(paths) == SubSeq(paths, 1, Min(MAX_RESULTS, Len(paths)))

\* [p for _, p in scored]
EntriesOf(scored) == [k \in 1..Len(scored) |-> scored[k].entry]

\* the results of an empty text, were they ranked by search like the others
EmptyTextResults_Ranked(s) ==
    EntriesOf(Search(<< >>, s.paths, MAX_RESULTS, s.root, s.cwd))

\* the else branch of refresh_results
EmptyTextResults(s) == FirstResults(s.paths)

\* min(cursor[0], max(0, len(results[0]) - 1))
ClampCursor(c, n) == Min(c, Max(0, n - 1))

\* refresh_results(text) in the session state s
RefreshResults(s, text) ==
    LET res == IF text # << >>
               THEN EntriesOf(Search(text, s.paths, MAX_RESULTS, s.root, s.cwd))
               ELSE EmptyTextResults(s)
    IN [s EXCEPT !.results = res, !.cursor = ClampCursor(s.cursor, Len(res))]

\* run_picker(root, paths, is_workspace, cwd) before the terminal is opened:
\* loaded is what cmd_pick passes for paths, None or the list of the cache.
\* The thread of bg_update_check has been started.
PickerStart(root, is_workspace, cwd, loaded) ==
    LET paths == IF loaded = PyNone THEN << >> ELSE loaded.v
    IN [NoPicker EXCEPT !.pc = "start", !.root = root,
                        !.is_workspace = is_workspace, !.cwd = cwd,
                        !.paths = paths, !.is_scanning = (loaded = PyNone),
                        !.results = FirstResults(paths), !.checker = "check"]

MaxText == 2

TextChars == { "a", "b" }

\* A root with three candidates and a root with nine, more than max_results.
PickerTrees ==
    { TreeOf({ << nA >>, << nB >> } \cup NonDirectories),
      TreeOf({ Chain(DEFAULT_MAX_DEPTH), << nA, nB >>, << nB >> }
             \cup NonDirectories) }

\* Where cmd_pick is started, for find_project_root(os.getcwd()): in
\* /w/p, which holds .git, or in a/ below it; or in /w, with no marker up
\* to / and DONGLE_SEARCH_DIR=p.
PickerPlaces ==
    LET W == Dirname(PROJ_P)
        dirs == { ROOT_DIR, W, PROJ_P, PROJ_P \o << SLASH >> \o nA }
        marked == [d \in dirs |->
                      [denied |-> FALSE,
                       names |-> IF d = PROJ_P THEN { << ".", "g", "i", "t" >>, nA, nB }
                                 ELSE {}]]
        bare == [d \in dirs |-> [denied |-> FALSE, names |-> {}]]
    IN { [start |-> c, entries |-> marked, search_dir |-> [set |-> FALSE, v |-> << >>],
          dirs |-> dirs] : c \in { PROJ_P, PROJ_P \o << SLASH >> \o nA } }
       \cup { [start |-> W, entries |-> bare,
               search_dir |-> [set |-> TRUE, v |-> Basename(PROJ_P)], dirs |-> dirs] }

\* cmd_pick up to the call of run_picker: the root is resolved from the
\* working directory; the cache holds the list of an earlier scan of the root
\* (cached) or there is no file; the list is read with load_cache, unless
\* --rescan is given (it is, over the cache of the tree of three candidates).
InitPicker ==
    /\ fs \in PickerTrees
    /\ now = 0
    /\ proc = NoProc
    /\ stale = NoStale
    /\ \E is_workspace \in BOOLEAN, place \in PickerPlaces, cached \in BOOLEAN :
       \E rescan \in { r \in BOOLEAN : r => cached /\ Chain(DEFAULT_MAX_DEPTH) \notin fs } :
           LET root == FindProjectRoot(place)
               key == CacheKey(root, is_workspace)
               scanned == ScanPaths(CmdScanArgs(root, is_workspace)).paths
           IN /\ cacheFile = IF cached THEN RecordFile(key, scanned, 0, 1)
                             ELSE MissingFile
              /\ gen = IF cached THEN 1 ELSE 0
              /\ lastSave = IF cached
                            THEN [key |-> key, paths |-> scanned, at |-> 0,
                                  outcome |-> "ok", gen |-> 1]
                            ELSE NoSave
              /\ pk = PickerStart(root, is_workspace, place.start,
                                  IF rescan THEN PyNone
                                  ELSE LoadCache(cacheFile, key, now))
    /\ IdleScan
    /\ IdleSearch
    /\ IdleRoot

\* what a step of the picker leaves alone besides the cache file
PickerRest == << fs, now, proc, stale, scanVars, searchVars, rootVars >>

CacheFileVars == << cacheFile, gen, lastSave >>

\* os.open('/dev/tty') and the two os.fdopen: the device is opened, or the
\* call raises and run_picker is left
OpenTty ==
    \E ok \in BOOLEAN :
        /\ pk.pc = "start"
        /\ pk' = IF ok THEN [pk EXCEPT !.pc = "construct", !.tty = "open"]
                 ELSE [pk EXCEPT !.pc = "raised", !.raised = "open"]
        /\ UNCHANGED << PickerRest, CacheFileVars >>

\* Vt100Input, Vt100_Output and Application are constructed, the scanning
\* thread is started if no list was given, app.run() is entered; or one of
\* the constructors raises, outside the try statement
Construct ==
    \E ok \in BOOLEAN :
        /\ pk.pc = "construct"
        /\ pk' = IF ok
                 THEN [pk EXCEPT !.pc = "running", !.entered = TRUE,
                                 !.thread = IF pk.is_scanning THEN "scan" ELSE "none"]
                 ELSE [pk EXCEPT !.pc = "raised", !.raised = "construct"]
        /\ UNCHANGED << PickerRest, CacheFileVars >>

\* the texts one edit away from text: a character more, or one less
Edits(text) ==
    { Append(text, c) : c \in { d \in TextChars : Len(text) < MaxText } }
    \cup { SubSeq(text, 1, Len(text) - 1) : k \in { j \in { 1 } : text # << >> } }

\* cursor[0] = 0 of on_text_change, were the cursor left where it is
CursorOnTextChange_Keep(c) == c

\* cursor[0] = 0 of on_text_change
CursorOnTextChange(c) == 0

\* on_text_change(buf): the text of the search buffer has changed
OnTextChange ==
    \E text \in Edits(pk.text) :
        /\ pk.pc = "running"
        /\ pk' = RefreshResults([pk EXCEPT !.text = text,
                                           !.cursor = CursorOnTextChange(pk.cursor)],
                                text)
        /\ UNCHANGED << PickerRest, CacheFileVars >>

\* cursor[0] -= 1
StepUp(c) == c - 1

\* cursor[0] += 1 of a handler that skips an entry
StepDown_ByTwo(c) == c + 2

\* cursor[0] += 1
StepDown(c) == c + 1

\* move_up(event): up, c-p
MoveUp ==
    /\ pk.pc = "running"
    /\ pk' = RefreshResults(IF pk.cursor > 0
                            THEN [pk EXCEPT !.cursor = StepUp(pk.cursor)]
                            ELSE pk,
                            pk.text)
    /\ UNCHANGED << PickerRest, CacheFileVars >>

\* move_down(event): down, c-n
MoveDown ==
    /\ pk.pc = "running"
    /\ pk' = RefreshResults(IF pk.cursor < Len(pk.results) - 1
                            THEN [pk EXCEPT !.cursor = StepDown(pk.cursor)]
                            ELSE pk,
                            pk.text)
    /\ UNCHANGED << PickerRest, CacheFileVars >>

\* move_down_tab(event): tab
MoveDownTab ==
    /\ pk.pc = "running"
    /\ pk' = RefreshResults(IF pk.cursor < Len(pk.results) - 1
                            THEN [pk EXCEPT !.cursor = StepDown(pk.cursor)]
                            ELSE pk,
                            pk.text)
    /\ UNCHANGED << PickerRest, CacheFileVars >>

\* move_up_stab(event): s-tab
MoveUpStab ==
    /\ pk.pc = "running"
    /\ pk' = RefreshResults(IF pk.cursor > 0
                            THEN [pk EXCEPT !.cursor = StepUp(pk.cursor)]
                            ELSE pk,
                            pk.text)
    /\ UNCHANGED << PickerRest, CacheFileVars >>

\* results[0][cursor[0]] of a handler that takes the first entry
SelectedAt_First(results, cursor) == results[1]

\* results[0][cursor[0]]
SelectedAt(results, cursor) == results[cursor + 1]

\* accept(event): enter
Accept ==
    /\ pk.pc = "running"
    /\ pk' = [pk EXCEPT !.pc = "finally",
                        !.selected = IF pk.results # << >>
                                     THEN << SelectedAt(pk.results, pk.cursor) >>
                                     ELSE pk.selected]
    /\ UNCHANGED << PickerRest, CacheFileVars >>

\* cancel(event): escape, c-c, c-g
Cancel ==
    /\ pk.pc = "running"
    /\ pk' = [pk EXCEPT !.pc = "finally"]
    /\ UNCHANGED << PickerRest, CacheFileVars >>

\* search_buf.text of update_ui, were it the text the buffer held when the
\* scan was started
CompletionText_AtScanStart(s) == << >>

\* search_buf.text of update_ui: the buffer is read when update_ui runs
CompletionText(s) == s.text

\* update_ui, called by the event loop: refresh_results(search_buf.text) and
\* app.invalidate()
UpdateUi ==
    /\ pk.pc = "running"
    /\ pk.callbacks > 0
    /\ pk' = RefreshResults([pk EXCEPT !.callbacks = pk.callbacks - 1],
                            CompletionText(pk))
    /\ UNCHANGED << PickerRest, CacheFileVars >>

\* an exception leaves app.run(): raised by a handler, by render_results or
\* by the terminal
RunRaises ==
    /\ pk.pc = "running"
    /\ pk' = [pk EXCEPT !.pc = "finally", !.raised = "run"]
    /\ UNCHANGED << PickerRest, CacheFileVars >>

\* the finally clause: tty_file_in.close(), tty_file_out.close(),
\* os.close(tty_fd); then return selected[0], or the exception goes on
Finally ==
    /\ pk.pc = "finally"
    /\ pk' = [pk EXCEPT !.tty = "closed",
                        !.pc = IF pk.raised = "none" THEN "returned" ELSE "raised"]
    /\ UNCHANGED << PickerRest, CacheFileVars >>

\* if chosen
Truthy(selected) ==
    /\ selected # << >>
    /\ selected[1].tag = "str" => selected[1].items[1] # << >>

\* the line cmd_pick prints for chosen
Printed(root, chosen) ==
    IF chosen.tag \in { "tuple", "list" } THEN chosen.items[2]
    ELSE IF chosen.items[1] # DOT THEN PathJoin(root, chosen.items[1])
    ELSE root

\* cmd_pick after run_picker: the path is printed, or sys.exit(1); an
\* exception that left run_picker ends the process with a traceback and the
\* exit status 1
CmdPickEnd ==
    /\ pk.pc \in { "returned", "raised" }
    /\ pk' = IF pk.pc = "returned" /\ Truthy(pk.selected)
             THEN [pk EXCEPT !.pc = "done", !.exit = 0,
                             !.stdout = << Printed(pk.root, pk.selected[1]) >>]
             ELSE [pk EXCEPT !.pc = "done", !.exit = 1]
    /\ UNCHANGED << PickerRest, CacheFileVars >>

\* The scanning thread is a daemon thread: it runs as long as the process.
ThreadAt(pos) == pk.pc \notin { "none", "done" } /\ pk.thread = pos

\* bg_scan: new_paths = scan_paths(root, is_workspace=is_workspace) and
\* save_cache(cache_key, new_paths)
BgScan ==
    \E outcome \in SaveOutcomes :
        LET new == ScanPaths(CmdScanArgs(pk.root, pk.is_workspace)).paths
        IN /\ ThreadAt("scan")
           /\ SaveCache(CacheKey(pk.root, pk.is_workspace), new, outcome)
           /\ pk' = [pk EXCEPT !.thread = "clear", !.new_paths = new]
           /\ UNCHANGED PickerRest

\* bg_scan: paths.clear()
BgClear ==
    /\ ThreadAt("clear")
    /\ pk' = [pk EXCEPT !.thread = "extend", !.paths = << >>]
    /\ UNCHANGED << PickerRest, CacheFileVars >>

\* bg_scan: paths.extend(new_paths)
BgExtend ==
    /\ ThreadAt("extend")
    /\ pk' = [pk EXCEPT !.thread = "flag", !.paths = pk.paths \o pk.new_paths]
    /\ UNCHANGED << PickerRest, CacheFileVars >>

\* bg_scan: is_scanning[0] = False
BgFlag ==
    /\ ThreadAt("flag")
    /\ pk' = [pk EXCEPT !.thread = "notify", !.is_scanning = FALSE]
    /\ UNCHANGED << PickerRest, CacheFileVars >>

\* bg_scan, were update_ui put on the loop twice
BgNotify_Twice ==
    /\ ThreadAt("notify")
    /\ pk' = [pk EXCEPT !.thread = "done", !.callbacks = pk.callbacks + 2]
    /\ UNCHANGED << PickerRest, CacheFileVars >>

\* bg_scan: loop.call_soon_threadsafe(update_ui)
BgNotify ==
    /\ ThreadAt("notify")
    /\ pk' = [pk EXCEPT !.thread = "done", !.callbacks = pk.callbacks + 1]
    /\ UNCHANGED << PickerRest, CacheFileVars >>

\* The update thread is a daemon thread too.
CheckerAt(pos) == pk.pc \notin { "none", "done" } /\ pk.checker = pos

\* bg_update_check: check_for_updates() has answered; has_update[0] = True
\* if a newer release was found, else the thread ends
BgUpdateCheck ==
    \E found \in BOOLEAN :
        /\ CheckerAt("check")
        /\ pk' = IF found THEN [pk EXCEPT !.checker = "notify", !.has_update = TRUE]
                 ELSE [pk EXCEPT !.checker = "done"]
        /\ UNCHANGED << PickerRest, CacheFileVars >>

\* bg_update_check: loop.call_soon_threadsafe(lambda: app.invalidate())
BgUpdateNotify ==
    /\ CheckerAt("notify")
    /\ pk' = [pk EXCEPT !.checker = "done", !.invalidates = pk.invalidates + 1]
    /\ UNCHANGED << PickerRest, CacheFileVars >>

\* the lambda of bg_update_check, called by the event loop: app.invalidate()
Invalidate ==
    /\ pk.pc = "running"
    /\ pk.invalidates > 0
    /\ pk' = [pk EXCEPT !.invalidates = pk.invalidates - 1]
    /\ UNCHANGED << PickerRest, CacheFileVars >>

NextPicker ==
    \/ OpenTty
    \/ Construct
    \/ OnTextChange
    \/ MoveUp
    \/ MoveUpStab
    \/ MoveDown
    \/ MoveDownTab
    \/ Accept
    \/ Cancel
    \/ UpdateUi
    \/ RunRaises
    \/ Finally
    \/ CmdPickEnd
    \/ BgScan
    \/ BgClear
    \/ BgExtend
    \/ BgFlag
    \/ BgNotify
    \/ BgUpdateCheck
    \/ BgUpdateNotify
    \/ Invalidate

SpecPicker == InitPicker /\ [][NextPicker]_vars

----------------------------------------------------------------------------
(* render_results: the formatted text of the results pane, a list of        *)
(* (style, text) fragments.  The marker of the selected line is written >.  *)

NL == "\n"

\* path, _ = item for an entry of a workspace list, else path = item
PathOfItem(item) == item.items[1]

\* os.sep.join(parts[:-1]) + os.sep for more than one part, else ""
PrefixOf(path) == SubSeq(path, 1, AfterLastSlash(path))

\* parts[-1]
LastOf(path) == SubSeq(path, AfterLastSlash(path) + 1, Len(path))

\* the two fragments appended for the item at index i
ItemFragments(item, is_selected) ==
    LET path == PathOfItem(item)
    IN IF is_selected
       THEN << [style |-> "class:selected",
                text |-> << " ", " ", ">", " " >> \o PrefixOf(path)],
               [style |-> "class:selected-highlight",
                text |-> Append(LastOf(path), NL)] >>
       ELSE << [style |-> "class:path-prefix",
                text |-> << " ", " ", " ", " " >> \o PrefixOf(path)],
               [style |-> "class:path-name",
                text |-> Append(LastOf(path), NL)] >>

\* the loop over enumerate(results[0])
ResultFragments(s) ==
    [j \in 1..(2 * Len(s.results)) |->
        LET i == (j - 1) \div 2
        IN ItemFragments(s.results[i + 1], i = s.cursor)[j - 2 * i]]

\* the line shown in place of the results when there is none
PlaceholderFragments(s) ==
    IF s.results = << >>
    THEN IF s.is_scanning
         THEN << [style |-> "class:no-results",
                  text |-> << " ", " ", "S", "c", "a", "n", "n", "i", "n", "g", " " >>
                           \o s.root \o << " ", ".", ".", ".", NL >>] >>
         ELSE << [style |-> "class:no-results",
                  text |-> << " ", " ", "N", "o", " ", "r", "e", "s", "u", "l", "t",
                              "s", " ", "f", "o", "u", "n", "d", NL >>] >>
    ELSE << >>

\* drawn, were the placeholder not counted
Drawn_Len(results) == Len(results)

\* drawn: 1 for the placeholder, else len(results[0])
Drawn(results) == IF results = << >> THEN 1 ELSE Len(results)

\* for _ in range(max_results - drawn): lines.append(("", "\n"))
PaddingFragments(drawn) ==
    [k \in 1..(MAX_RESULTS - drawn) |-> [style |-> "", text |-> << NL >>]]

\* render_results()
RenderResults(s) ==
    ResultFragments(s) \o PlaceholderFragments(s) \o PaddingFragments(Drawn(s.results))

\* the number of lines of a formatted text: its line ends
LineCount(fragments) ==
    Cardinality({ jk \in UNION { { << j, k >> : k \in 1..Len(fragments[j].text) } :
                                 j \in 1..Len(fragments) } :
                      fragments[jk[1]].text[jk[2]] = NL })

----------------------------------------------------------------------------
(* Claims about the picker (checked under SpecPicker) *)

\* The freshly scanned candidate list of the session, once the scanning
\* thread has built it.
SessionLists == IF pk.thread \in { "none", "scan" } THEN {} ELSE { pk.new_paths }

\* A step of a handler that ends with refresh_results.
RefreshStep ==
    OnTextChange \/ MoveUp \/ MoveDown \/ MoveDownTab \/ MoveUpStab \/ UpdateUi

\* The first eight entries of a list, or all of them if it is shorter.
FirstEight(list) == [k \in 1..(IF Len(list) < 8 THEN Len(list) ELSE 8) |-> list[k]]

\* After a handler refreshed the results for an empty text, and when the
\* picker starts, the visible results are the first 8 candidates in scan order.
PickerShowsScanOrder ==
    /\ pk'.text = << >> /\ pk'.pc = "running" /\ RefreshStep
           => pk'.results = FirstEight(pk'.paths)
    /\ pk.pc = "start" => pk.results = FirstEight(pk.paths)

\* The ranking of an empty query: the candidates below the working directory
\* with score 100001, then the others with score 1, each group in scan order.
BoostedFirst(list, root, cwd) ==
    LET inside == SelectSeq(list, LAMBDA e : IsInsideCwd(e, root, cwd))
        others == SelectSeq(list, LAMBDA e : ~IsInsideCwd(e, root, cwd))
    IN [k \in 1..Len(inside) |-> [score |-> 100001, entry |-> inside[k]]]
       \o [k \in 1..Len(others) |-> [score |-> 1, entry |-> others[k]]]

\* search with an empty query returns the first max_results entries of the
\* list in scan order, each with score 1.
EmptyQueryInScanOrder ==
    \A list \in SessionLists :
        Search(<< >>, list, MAX_RESULTS, pk.root, pk.cwd)
            = [k \in 1..Len(FirstEight(list)) |-> [score |-> 1, entry |-> list[k]]]

\* search with an empty query returns the first max_results entries of the
\* list with the candidates below the working directory put first.
EmptyQueryBoostedFirst ==
    \A list \in SessionLists :
        /\ Search(<< >>, list, MAX_RESULTS, pk.root, pk.cwd)
               = FirstEight(BoostedFirst(list, pk.root, pk.cwd))
        /\ (\A k \in 1..Len(list) : ~IsInsideCwd(list[k], pk.root, pk.cwd))
               => Search(<< >>, list, MAX_RESULTS, pk.root, pk.cwd)
                      = [k \in 1..Len(FirstEight(list)) |->
                             [score |-> 1, entry |-> list[k]]]

CursorInRange ==
    /\ pk.cursor >= 0
    /\ pk.cursor <= (IF Len(pk.results) = 0 THEN 0 ELSE Len(pk.results) - 1)

\* The session is over: app.run() has returned or raised.
SessionOver == pk.pc \in { "finally", "returned", "raised", "done" }

\* enter takes the visible entry under the cursor, or nothing if no entry is
\* visible, and ends the session.
AcceptTakesCursorEntry ==
    Accept =>
        /\ SessionOver'
        /\ pk'.raised = "none"
        /\ IF Len(pk.results) > 0
           THEN /\ pk.cursor \in 0..(Len(pk.results) - 1)
                /\ pk'.selected = << pk.results[pk.cursor + 1] >>
           ELSE pk'.selected = << >>

\* C15: in every state of a running session enter can be pressed and ends
\* the session; the outcome is the visible entry at the cursor, whose index
\* is always in range, or no selection when no entry is visible; run_picker
\* returns that outcome.
C15_AcceptOutcome ==
    /\ [](pk.pc = "running" => CursorInRange /\ ENABLED Accept)
    /\ [][AcceptTakesCursorEntry]_vars
    /\ [][SessionOver => pk'.selected = pk.selected]_vars

\* run_picker returned the third of the entries that a text left visible.
C15_Witness ==
    /\ pk.pc = "returned"
    /\ pk.text # << >>
    /\ pk.cursor = 2
    /\ Len(pk.results) > 3
    /\ pk.selected = << pk.results[3] >>
    /\ pk.selected # << pk.results[1] >>

\* The absolute path of a candidate: the stored one of a workspace entry,
\* the root for ".", the root joined with the relative path otherwise.
AbsolutePathOf(root, e) ==
    IF e.tag # "str" THEN e.items[2]
    ELSE IF e.items[1] = << "." >> THEN root
    ELSE root \o << "/" >> \o e.items[1]

\* What the process has written and its exit status when it has ended.
OutputMatchesOutcome ==
    pk.pc = "done" =>
        IF pk.raised = "none" /\ pk.selected # << >>
        THEN /\ pk.stdout = << AbsolutePathOf(pk.root, pk.selected[1]) >>
             /\ pk.stdout[1][1] = "/"
             /\ pk.exit = 0
        ELSE /\ pk.stdout = << >>
             /\ pk.exit > 0

\* C16: in every state of a running session a cancel key can be pressed and
\* ends the session with no selection; cmd_pick prints exactly one absolute
\* path and exits 0 if and only if the session ended with a selection (the
\* root joined with the relative path, the root for ".", the stored absolute
\* path of a workspace entry), and otherwise prints nothing and exits
\* non-zero.
C16_CancelAndOutput ==
    /\ [](pk.pc = "running" => ENABLED Cancel)
    /\ [][Cancel => SessionOver' /\ pk'.selected = << >> /\ pk'.raised = "none"]_vars
    /\ [] OutputMatchesOutcome

\* C18: when run_picker is left, by accept, by cancel, by an exception
\* raised while the application runs, or by an exception raised while the
\* terminal input, the terminal output or the application is constructed, the
\* terminal device it opened is closed; and when the device cannot be opened
\* the render loop is never entered and the failure ends the process with a
\* non-zero status.
C18_TtyClosedOnEveryExit ==
    /\ pk.pc \in { "returned", "raised", "done" } /\ pk.tty # "unopened"
           => pk.tty = "closed"
    /\ pk.raised = "open" =>
           /\ ~pk.entered
           /\ pk.tty = "unopened"
           /\ pk.pc \in { "raised", "done" }
           /\ pk.pc = "done" => pk.exit > 0 /\ pk.stdout = << >>

\* The visible results that the text and the candidate list call for.
TopRanking(text, list, root, cwd) ==
    IF text = << >> THEN FirstEight(list)
    ELSE LET ranked == Search(text, list, 8, root, cwd)
         IN [k \in 1..Len(ranked) |-> ranked[k].entry]

\* C19: after every text change the cursor is 0 and the visible results are
\* the top-8 ranking of the new text against the candidate list as it is at
\* that moment (its first 8 entries when the text is empty), whether the scan
\* has completed or not.
C19_TextChangeRefreshes ==
    [][pk'.text # pk.text /\ OnTextChange =>
           /\ pk'.cursor = 0
           /\ pk'.paths = pk.paths
           /\ pk'.results = TopRanking(pk'.text, pk'.paths, pk.root, pk.cwd)]_vars

\* A text was typed after the scanning thread filled the list and before it
\* cleared is_scanning; it filtered the list and the cursor is 0.
C19_Witness ==
    /\ pk.pc = "running"
    /\ pk.is_scanning
    /\ pk.text # << >>
    /\ pk.cursor = 0
    /\ pk.results # << >>
    /\ Len(pk.results) < Len(pk.paths)
    /\ pk.results = TopRanking(pk.text, pk.paths, pk.root, pk.cwd)

\* A step of one of the four navigation handlers (none of them changes the
\* text or ends the session).
NavigationStep ==
    /\ pk'.text = pk.text
    /\ pk'.pc = "running"
    /\ MoveUp \/ MoveDown \/ MoveDownTab \/ MoveUpStab

\* C20: in every state of the session 0 <= cursor <= max(0,
\* len(visibleResults) - 1), whatever the interleaving of text changes,
\* navigation and the steps of the scan; a navigation event changes the
\* cursor by at most one, and leaves it where it is at the boundary it moves
\* towards.
C20_CursorInvariant ==
    /\ [] CursorInRange
    /\ [][NavigationStep =>
              /\ pk'.cursor - pk.cursor \in { -1, 0, 1 }
              /\ (pk.cursor = 0 /\ MoveUp) => pk'.cursor = 0
              /\ (pk.cursor >= Len(pk.results) - 1 /\ MoveDown)
                     => pk'.cursor = pk.cursor]_vars

\* The cursor was moved down to the last of more than two visible results.
C20_Witness ==
    /\ pk.pc = "running"
    /\ Len(pk.results) > 2
    /\ pk.cursor = Len(pk.results) - 1

\* What a navigation handler may change: the cursor.
OnlyCursorMoved == pk' = [pk EXCEPT !.cursor = pk'.cursor]

\* C21: an up, down, tab or shift-tab event changes only the cursor and
\* leaves the visible results as they are, in every interleaving, also when
\* the scanning thread has replaced the candidate list and update_ui has not
\* run yet.
C21_NavigationKeepsResults ==
    [][NavigationStep => pk'.results = pk.results /\ OnlyCursorMoved]_vars

\* The scanning thread of the session has put update_ui on the loop and the
\* loop has run it.
CompletionDelivered == pk.thread = "done" /\ pk.callbacks = 0

\* C22: when update_ui runs on the loop, the visible results become the top-8
\* ranking of the text the buffer holds at that moment against the complete
\* scanned list, whatever was typed while the scan was running.
C22_CompletionUsesCurrentQuery ==
    [][pk'.callbacks < pk.callbacks /\ UpdateUi =>
           /\ pk.thread = "done"
           /\ pk.paths = pk.new_paths
           /\ pk'.paths = pk.paths
           /\ pk'.text = pk.text
           /\ pk'.results = TopRanking(pk.text, pk.new_paths, pk.root, pk.cwd)]_vars

\* update_ui has run with a text typed during the scan: the results are the
\* ranking of that text and not the first entries of the scanned list.
C22_Witness ==
    /\ pk.pc = "running"
    /\ CompletionDelivered
    /\ pk.text # << >>
    /\ pk.results # << >>
    /\ pk.results = TopRanking(pk.text, pk.new_paths, pk.root, pk.cwd)
    /\ pk.results # FirstEight(pk.new_paths)

\* A step of one of the two background threads.
BackgroundStep ==
    \/ BgScan
    \/ BgClear
    \/ BgExtend
    \/ BgFlag
    \/ BgNotify
    \/ BgUpdateCheck
    \/ BgUpdateNotify

\* The state the key handlers and the renderer read.
RenderState(s) ==
    << s.paths, s.is_scanning, s.has_update, s.results, s.cursor >>

\* C23: the threads of bg_scan and bg_update_check never write the candidate
\* list, the scanning flag, the update flag, the visible results or the
\* cursor, and hand over through the callback put on the loop only; so the
\* list is never replaced while is_scanning is still true.
C23_LoopIsSoleMutator ==
    /\ [][pk'.thread # pk.thread \/ pk'.checker # pk.checker =>
              (BackgroundStep => RenderState(pk') = RenderState(pk))]_vars
    /\ [](pk.pc = "running" /\ pk.is_scanning => pk.paths = << >>)

----------------------------------------------------------------------------
(* The picker under fair scheduling: the bg_scan thread is scheduled until  *)
(* it has ended, scan_paths and save_cache return (the scan visits at most  *)
(* max_dirs directories), and the event loop calls a callback put on it     *)
(* with call_soon_threadsafe as long as app.run() goes on.                  *)

\* scan_paths and save_cache return: the thread does not stay in them for
\* ever.  This is weak fairness of BgScan, which is enabled exactly when the
\* thread is there and which takes it away for good.
ScanReturns == []<>(~ThreadAt("scan"))

\* The loop calls update_ui once it is put on it: weak fairness of UpdateUi,
\* which is enabled exactly when app.run() goes on with the callback waiting
\* and which takes the callback off the loop.
LoopCallsBack == []<>(~(pk.pc = "running" /\ pk.callbacks > 0))

FairPicker ==
    /\ ScanReturns
    /\ WF_vars(BgClear)
    /\ WF_vars(BgExtend)
    /\ WF_vars(BgFlag)
    /\ WF_vars(BgNotify)
    /\ LoopCallsBack

SpecPickerLive == SpecPicker /\ FairPicker

\* The session was started with a list: no scanning thread, not scanning.
StartedWithList == pk.thread = "none" /\ ~pk.is_scanning

\* app.run() is entered by a session that got no list: one scanning thread
\* is started, is_scanning is true, and no result is visible.
ScanStartedOnce ==
    /\ [][pk.pc = "construct" /\ pk'.pc = "running" /\ Construct =>
              /\ pk.is_scanning = ~StartedWithList
              /\ pk.is_scanning =>
                     /\ pk'.thread = "scan"
                     /\ pk'.is_scanning
                     /\ pk'.paths = << >>
                     /\ pk'.results = << >>]_vars
    /\ [][pk'.thread = "scan" => pk.thread = "scan" \/ pk.pc = "construct"]_vars

\* update_ui is put on the loop once, and called at most once.
OneCompletion ==
    /\ [](pk.callbacks <= 1)
    /\ [][pk'.callbacks > pk.callbacks =>
              pk.thread = "notify" /\ pk'.thread = "done" /\ pk'.callbacks = 1]_vars
    /\ [][pk.thread = "done" => pk'.thread = "done" /\ pk'.callbacks <= pk.callbacks]_vars

\* A session started with a list stays so, and its list does not change.
CachedSessionIsStill ==
    [][StartedWithList => StartedWithList' /\ pk'.paths = pk.paths]_vars

\* C24: a session started without a list (cache miss or --rescan) starts
\* exactly one scan, with is_scanning true and no visible result; unless the
\* session ends, is_scanning becomes false and update_ui is called once by
\* the loop, exactly once; a session started with the list of the cache
\* starts no scan, is never scanning, and its list never changes.
C24_EventualSingleCompletion ==
    /\ ScanStartedOnce
    /\ OneCompletion
    /\ CachedSessionIsStill
    /\ (pk.pc = "running" /\ pk.thread # "none")
           ~> (pk.pc # "running" \/ (~pk.is_scanning /\ CompletionDelivered))

\* The session was started with --rescan over a cache that holds the list,
\* the scan has ended and update_ui has shown its list.
C24_Witness ==
    /\ pk.pc = "running"
    /\ ~pk.is_scanning
    /\ CompletionDelivered
    /\ lastSave.gen > 1
    /\ pk.results = FirstEight(pk.new_paths)

----------------------------------------------------------------------------
(* Claims about the results pane (checked under SpecPicker) *)

\* There is a cmd_pick process and run_picker has set up its state.
InSession == pk.pc # "none"

\* C25: in every state of the session, with no result while scanning, with
\* no result after the scan, or with 1 to 8 results, render_results returns
\* exactly max_results (8) lines, the missing ones as empty lines; so the
\* number of lines is the same before and after every step.
C25_AlwaysMaxResultsLines ==
    InSession => LineCount(RenderResults(pk)) = MAX_RESULTS

\* A running session with results, fewer than 8: lines are padded.
C25_Witness ==
    /\ pk.pc = "running"
    /\ pk.results # << >>
    /\ Len(pk.results) < MAX_RESULTS
    /\ Len(PaddingFragments(Drawn(pk.results))) = MAX_RESULTS - Len(pk.results)
    /\ LineCount(RenderResults(pk)) = MAX_RESULTS

\* how often e occurs in seq
TimesIn(seq, e) == Cardinality({ k \in 1..Len(seq) : seq[k] = e })

\* shown is a selection of distinct positions of list, in any order
SelectionOf(shown, list) ==
    \A k \in 1..Len(shown) :
        TimesIn(shown, shown[k]) <= TimesIn(list, shown[k])

\* C26: in every state of the session the visible results are at most
\* max_results (8) entries and a selection, in any order, of distinct
\* positions of the candidate list as it is in that state, whatever the
\* interleaving of keystrokes, navigation and the steps of the scan.
C26_VisibleWindow ==
    InSession =>
        /\ Len(pk.results) <= MAX_RESULTS
        /\ SelectionOf(pk.results, pk.paths)

\* After the scan of a root with more than eight candidates, eight of them
\* are shown and the cursor is on the last.
C26_Witness ==
    /\ pk.pc = "running"
    /\ CompletionDelivered
    /\ pk.cursor = MAX_RESULTS - 1
    /\ Len(pk.results) = MAX_RESULTS
    /\ Len(pk.paths) > MAX_RESULTS
    /\ SelectionOf(pk.results, pk.paths)

====
